---- MODULE Spec2Model ----
(***************************************************************************)
(* Feed ranking and personalization engine of MyTop6-server                *)
(* (routes/bulletins.js, routes/friendships.js and the Mongoose models).   *)
(*                                                                         *)
(* Units.  Time is counted in whole hours.  Interest weights are stored in *)
(* half units (WeightScale = 2), so that the view weight 0.5 is the        *)
(* integer 1 and the clamp 200 is 400.  Scores are fixed-point numbers in  *)
(* thousandths (ScoreScale); Math.log1p and Math.pow(x, 1.2) are tabulated *)
(* to that precision.                                                      *)
(*                                                                         *)
(* Store.  A Mongoose save() writes only the paths the handler modified:   *)
(* a Map key is $set to the value computed from the handler's own read,    *)
(* an array push is a $push and an array pull is a $pull.  Every await of  *)
(* a handler is a step of its own, so that requests interleave exactly     *)
(* where the event loop lets them.                                         *)
(*                                                                         *)
(* Tags of a post are a duplicate-free set: the tagger's output contract   *)
(* (utils/aiTagger.js, "No duplicate tags") and reposts carry no tags.     *)
(* A find() without sort returns documents in insertion (id) order.        *)
(***************************************************************************)
EXTENDS Integers, Sequences, FiniteSets, TLC

\* ------------------------------------------------------------------------
\* Bounds of the model
\* ------------------------------------------------------------------------

\* posts that can ever be created in the small-store specifications
MaxPosts == 2
\* requests of the interaction handlers that can be started
MaxOps == 2
\* friendship documents that can ever be created
MaxEdges == 2

\* ------------------------------------------------------------------------
\* Program constants
\* ------------------------------------------------------------------------

MAX_TOTAL == 50
INTEREST_WINDOW_DAYS == 21
FRIEND_WINDOW_DAYS == 4
TRENDING_WINDOW_DAYS_LOCAL == 21
TOP_TAGS == 15
INTEREST_RECENCY_HOURS == 15
FRIEND_RECENCY_HOURS == 24
MAX_WEIGHT == 200
WeightScale == 2
ScoreScale == 1000
HoursPerDay == 24

\* targetInterest = Math.floor(MAX_TOTAL * 0.5)
targetInterest == (MAX_TOTAL * 5) \div 10
\* targetFriends = Math.floor(MAX_TOTAL * 0.3)
targetFriends == (MAX_TOTAL * 3) \div 10
\* the trending target taken to be the friend share
targetTrendingAsFriends == targetFriends
\* targetTrending = MAX_TOTAL - targetInterest - targetFriends
targetTrending == MAX_TOTAL - targetInterest - targetFriends

Users == {"u1", "u2", "u3"}
\* an id under which no user document exists
Ghost == "ghost"
UserIds == Users \cup {Ghost}
Tags == {"retro", "y2k"}
\* the tag arrays the tagger returns: duplicate-free, possibly empty
TagLists == {<<>>, <<"retro">>, <<"retro", "y2k">>}
NoPost == 0
\* communityId: null
NoCommunity == "none"

Min(a, b) == IF a < b THEN a ELSE b
Max(a, b) == IF a > b THEN a ELSE b

\* round(1000 * Math.log1p(n)) for n = 0 .. 40
Log1pMilliTable ==
  <<
     0, 693, 1099, 1386, 1609, 1792, 1946, 2079, 2197, 2303, 2398, 2485,
     2565, 2639, 2708, 2773, 2833, 2890, 2944, 2996, 3045, 3091, 3135, 3178,
     3219, 3258, 3296, 3332, 3367, 3401, 3434, 3466, 3497, 3526, 3555, 3584,
     3611, 3638, 3664, 3689, 3714
  >>

Log1pMilli(n) == Log1pMilliTable[Min(n, Len(Log1pMilliTable) - 1) + 1]

\* round(1000 * Math.pow(h + 2, 1.2)) for h = 0 .. 640
Pow12MilliTable ==
  <<
     2297, 3737, 5278, 6899, 8586, 10330, 12126, 13967, 15849, 17769, 19725, 21714,
     23733, 25782, 27858, 29960, 32087, 34238, 36411, 38607, 40823, 43060, 45316, 47591,
     49885, 52196, 54524, 56869, 59231, 61608, 64000, 66407, 68830, 71266, 73716, 76180,
     78658, 81148, 83651, 86167, 88695, 91235, 93787, 96351, 98926, 101512, 104109, 106717,
     109336, 111965, 114605, 117255, 119915, 122584, 125264, 127953, 130651, 133359, 136076, 138802,
     141537, 144281, 147033, 149795, 152564, 155342, 158129, 160923, 163726, 166537, 169355, 172182,
     175016, 177858, 180708, 183565, 186429, 189301, 192180, 195066, 197960, 200860, 203768, 206682,
     209603, 212531, 215466, 218408, 221356, 224311, 227272, 230239, 233213, 236194, 239180, 242173,
     245172, 248177, 251189, 254206, 257229, 260258, 263293, 266334, 269381, 272434, 275492, 278556,
     281625, 284700, 287781, 290867, 293958, 297055, 300158, 303266, 306379, 309497, 312621, 315749,
     318883, 322022, 325167, 328316, 331470, 334630, 337794, 340963, 344138, 347317, 350501, 353689,
     356883, 360081, 363284, 366492, 369705, 372922, 376144, 379370, 382601, 385836, 389076, 392321,
     395570, 398824, 402081, 405344, 408610, 411882, 415157, 418437, 421721, 425009, 428301, 431598,
     434899, 438204, 441513, 444827, 448144, 451466, 454792, 458122, 461455, 464793, 468135, 471481,
     474831, 478184, 481542, 484904, 488269, 491638, 495011, 498388, 501769, 505154, 508542, 511934,
     515330, 518730, 522133, 525540, 528951, 532366, 535784, 539205, 542631, 546060, 549492, 552928,
     556368, 559811, 563258, 566708, 570162, 573619, 577080, 580544, 584012, 587483, 590957, 594435,
     597917, 601401, 604889, 608381, 611876, 615374, 618875, 622380, 625888, 629399, 632914, 636432,
     639953, 643477, 647004, 650535, 654069, 657606, 661146, 664690, 668236, 671786, 675339, 678895,
     682454, 686016, 689581, 693150, 696721, 700296, 703873, 707454, 711037, 714624, 718213, 721806,
     725401, 729000, 732601, 736206, 739813, 743424, 747037, 750653, 754272, 757894, 761519, 765147,
     768777, 772411, 776047, 779686, 783328, 786973, 790620, 794271, 797924, 801580, 805239, 808900,
     812565, 816232, 819902, 823574, 827250, 830928, 834608, 838292, 841978, 845667, 849358, 853052,
     856749, 860449, 864151, 867856, 871563, 875273, 878986, 882701, 886419, 890140, 893863, 897589,
     901317, 905048, 908781, 912517, 916256, 919997, 923741, 927487, 931235, 934987, 938740, 942497,
     946255, 950017, 953780, 957546, 961315, 965086, 968860, 972636, 976414, 980195, 983978, 987764,
     991552, 995343, 999136, 1002931, 1006729, 1010529, 1014332, 1018137, 1021944, 1025754, 1029566, 1033380,
     1037197, 1041016, 1044837, 1048661, 1052487, 1056315, 1060146, 1063979, 1067814, 1071652, 1075492, 1079334,
     1083179, 1087025, 1090874, 1094726, 1098579, 1102435, 1106293, 1110153, 1114016, 1117880, 1121747, 1125617,
     1129488, 1133362, 1137238, 1141116, 1144996, 1148878, 1152763, 1156650, 1160539, 1164430, 1168323, 1172219,
     1176116, 1180016, 1183918, 1187822, 1191728, 1195637, 1199547, 1203460, 1207375, 1211292, 1215211, 1219132,
     1223055, 1226980, 1230907, 1234837, 1238769, 1242702, 1246638, 1250576, 1254516, 1258457, 1262401, 1266347,
     1270296, 1274246, 1278198, 1282152, 1286108, 1290067, 1294027, 1297989, 1301953, 1305920, 1309888, 1313859,
     1317831, 1321805, 1325782, 1329760, 1333740, 1337723, 1341707, 1345693, 1349681, 1353672, 1357664, 1361658,
     1365654, 1369652, 1373652, 1377654, 1381658, 1385663, 1389671, 1393681, 1397692, 1401706, 1405721, 1409738,
     1413758, 1417779, 1421802, 1425827, 1429853, 1433882, 1437913, 1441945, 1445980, 1450016, 1454054, 1458094,
     1462136, 1466179, 1470225, 1474272, 1478322, 1482373, 1486426, 1490481, 1494537, 1498596, 1502656, 1506718,
     1510782, 1514848, 1518916, 1522985, 1527056, 1531129, 1535204, 1539281, 1543359, 1547439, 1551522, 1555605,
     1559691, 1563778, 1567868, 1571959, 1576051, 1580146, 1584242, 1588340, 1592440, 1596542, 1600645, 1604750,
     1608857, 1612966, 1617076, 1621188, 1625302, 1629417, 1633535, 1637654, 1641774, 1645897, 1650021, 1654147,
     1658275, 1662404, 1666535, 1670668, 1674802, 1678938, 1683076, 1687216, 1691357, 1695500, 1699645, 1703791,
     1707939, 1712089, 1716240, 1720393, 1724548, 1728704, 1732862, 1737022, 1741183, 1745346, 1749511, 1753677,
     1757845, 1762015, 1766186, 1770359, 1774534, 1778710, 1782888, 1787067, 1791248, 1795431, 1799615, 1803801,
     1807989, 1812178, 1816369, 1820561, 1824755, 1828951, 1833148, 1837347, 1841547, 1845749, 1849953, 1854158,
     1858365, 1862574, 1866784, 1870995, 1875208, 1879423, 1883639, 1887857, 1892077, 1896298, 1900520, 1904744,
     1908970, 1913197, 1917426, 1921657, 1925889, 1930122, 1934357, 1938594, 1942832, 1947072, 1951313, 1955556,
     1959800, 1964046, 1968293, 1972542, 1976792, 1981044, 1985298, 1989553, 1993809, 1998067, 2002327, 2006588,
     2010850, 2015114, 2019380, 2023647, 2027915, 2032185, 2036457, 2040730, 2045005, 2049281, 2053558, 2057837,
     2062117, 2066399, 2070683, 2074968, 2079254, 2083542, 2087831, 2092122, 2096414, 2100708, 2105003, 2109300,
     2113598, 2117898, 2122199, 2126501, 2130805, 2135111, 2139417, 2143726, 2148035, 2152346, 2156659, 2160973,
     2165289, 2169606, 2173924, 2178244, 2182565, 2186887, 2191211, 2195537, 2199864, 2204192, 2208522, 2212853,
     2217186, 2221520, 2225855, 2230192, 2234530, 2238869, 2243210, 2247553, 2251897, 2256242, 2260588, 2264936,
     2269286, 2273637, 2277989, 2282342, 2286697, 2291054, 2295411, 2299770, 2304131, 2308493, 2312856, 2317220,
     2321586, 2325954, 2330322, 2334692, 2339064
  >>

Pow12Milli(h) == Pow12MilliTable[Min(h, Len(Pow12MilliTable) - 1) + 1]

\* ------------------------------------------------------------------------
\* State
\* ------------------------------------------------------------------------

VARIABLES
  now,          \* Date.now(), in hours
  nextId,       \* next Bulletin _id to be assigned
  bulletins,    \* Bulletin collection: _id -> document
  interestTags, \* User.interestTags of every user: insertion-ordered Map
  friendships,  \* Friendship collection: _id -> document
  nextEdge,     \* next Friendship _id to be assigned
  interactions, \* Interaction collection: entry -> number of documents
  reqs,         \* in-flight requests of the interaction handlers
  ops,          \* number of interaction requests started so far
  fy,           \* the GET /for-you/:userId request in flight
  tr,           \* the GET /trending request in flight
  communities   \* Community collection: _id -> document

vars == <<now, nextId, bulletins, interestTags, friendships, nextEdge,
          interactions, reqs, ops, fy, tr, communities>>

storeVars == <<nextId, bulletins, interestTags, friendships, nextEdge,
               interactions, communities>>

\* ------------------------------------------------------------------------
\* Documents
\* ------------------------------------------------------------------------

\* new Bulletin({userId, ..., repostOf}) with the schema defaults
NewBulletin(userId, tags, repostOf, createdAt) ==
  [userId |-> userId, createdAt |-> createdAt, tags |-> tags,
   likes |-> <<>>, reposts |-> <<>>, comments |-> 0, repostOf |-> repostOf,
   communityId |-> NoCommunity, approved |-> TRUE]

\* new Friendship({requester, recipient, status: "pending"})
NewFriendship(requester, recipient) ==
  [requester |-> requester, recipient |-> recipient, status |-> "pending"]

\* Interaction.create(entry): one more document with these fields
LogAdd(log, entry) ==
  IF entry \in DOMAIN log THEN [log EXCEPT ![entry] = @ + 1]
  ELSE log @@ (entry :> 1)

\* the tags array of a document, as a set
TagSet(tags) == {tags[i] : i \in DOMAIN tags}

\* the ids of the collection in insertion order
IdSeq == [i \in 1..(nextId - 1) |-> i]

\* Bulletin.find(filter) without sort: matching documents in insertion order
FindBulletins(matching) ==
  SelectSeq(IdSeq, LAMBDA i : i \in DOMAIN bulletins /\ i \in matching)

\* ------------------------------------------------------------------------
\* interestTags: a Map, kept as the sequence of its entries in insertion order
\* ------------------------------------------------------------------------

MapKeys(m) == {m[i].tag : i \in DOMAIN m}

\* Map.get(tag) || 0
MapGet(m, tag) ==
  IF tag \in MapKeys(m)
    THEN (CHOOSE e \in {m[i] : i \in DOMAIN m} : e.tag = tag).w
    ELSE 0

\* Map.set(tag, w): an existing key keeps its position, a new key is appended
MapSet(m, tag, w) ==
  IF tag \in MapKeys(m)
    THEN [i \in DOMAIN m |-> IF m[i].tag = tag THEN [tag |-> tag, w |-> w] ELSE m[i]]
    ELSE Append(m, [tag |-> tag, w |-> w])

\* ------------------------------------------------------------------------
\* Sorting: Array.prototype.sort((a, b) => b.key - a.key) is stable
\* ------------------------------------------------------------------------

\* the comparator the wrong way round: index i goes behind every index whose
\* key is not greater
InsertAsc(order, i, keys) ==
  LET k == Cardinality({j \in DOMAIN order : keys[order[j]] <= keys[i]})
  IN  SubSeq(order, 1, k) \o <<i>> \o SubSeq(order, k + 1, Len(order))

\* index i goes behind every index whose key is not smaller
InsertDesc(order, i, keys) ==
  LET k == Cardinality({j \in DOMAIN order : keys[order[j]] >= keys[i]})
  IN  SubSeq(order, 1, k) \o <<i>> \o SubSeq(order, k + 1, Len(order))

RECURSIVE OrderFrom(_, _, _, _)
\* the indices lo..hi inserted one after the other: the first half of the
\* range, then the second half; every insertion lengthens the order by one,
\* and the first half is complete before the second begins
OrderFrom(order, lo, hi, keys) ==
  IF lo > hi THEN order
  ELSE IF lo = hi THEN InsertDesc(order, lo, keys)
  ELSE LET mid == (lo + hi) \div 2
           firstHalf == OrderFrom(order, lo, mid, keys)
       IN  IF Len(firstHalf) = Len(order) + (mid - lo + 1)
             THEN OrderFrom(firstHalf, mid + 1, hi, keys)
             ELSE firstHalf

SortDescBy(s, keys) ==
  LET order == OrderFrom(<<>>, 1, Len(keys), keys)
  IN  [k \in DOMAIN s |-> s[order[k]]]

ScoreOf(item) == item.score
WeightOf(entry) == entry.w

Ids(items) == {items[i].id : i \in DOMAIN items}

\* arr.slice(0, n) for n >= 0
Slice(arr, n) == SubSeq(arr, 1, Min(n, Len(arr)))

\* ------------------------------------------------------------------------
\* GET /for-you/:userId
\* ------------------------------------------------------------------------

FyIdle ==
  [pc |-> "idle", userId |-> Ghost, now |-> 0, tagMap |-> <<>>,
   rawInterest |-> <<>>, rawFriends |-> <<>>, rawTrending |-> <<>>,
   interestPosts |-> <<>>, friendIds |-> <<>>, friendPosts |-> <<>>,
   trendingPosts |-> <<>>, chosenInterest |-> <<>>, chosenFriends |-> <<>>,
   chosenTrending |-> <<>>, combined |-> <<>>,
   path |-> "none", status |-> 0, body |-> <<>>]

\* entries.sort((a, b) => b[1] - a[1]); entries.slice(0, 15).map(([tag]) => tag)
TopTags(tagMap) ==
  LET sorted == SortDescBy(tagMap, [i \in DOMAIN tagMap |-> WeightOf(tagMap[i])])
      top == Slice(sorted, TOP_TAGS)
  IN  {top[i].tag : i \in DOMAIN top}

RECURSIVE SumWeightsTopOnly(_, _)
\* the tag score summed over the top tags only
SumWeightsTopOnly(tagMap, tags) ==
  IF tags = <<>> THEN 0
  ELSE (IF Head(tags) \in TopTags(tagMap) THEN MapGet(tagMap, Head(tags)) ELSE 0)
       + SumWeightsTopOnly(tagMap, Tail(tags))

RECURSIVE SumWeights(_, _)
\* let tagScore = 0; b.tags.forEach(tag => { if (val) tagScore += val })
SumWeights(tagMap, tags) ==
  IF tags = <<>> THEN 0
  ELSE MapGet(tagMap, Head(tags)) + SumWeights(tagMap, Tail(tags))

AgeHours(b, at) == at - b.createdAt

\* score = tagScore + Math.max(0, 15 - ageHours) + Math.log1p(notes)
InterestScore(b, tagMap, at) ==
  LET notes == Len(b.likes) + Len(b.reposts)
  IN  (SumWeights(tagMap, b.tags) * ScoreScale) \div WeightScale
      + Max(0, (INTEREST_RECENCY_HOURS - AgeHours(b, at)) * ScoreScale)
      + Log1pMilli(notes)

\* score = Math.max(0, 24 - ageHours) + Math.log1p(notes)
FriendScore(b, at) ==
  LET notes == Len(b.likes) + Len(b.reposts) + b.comments
  IN  Max(0, (FRIEND_RECENCY_HOURS - AgeHours(b, at)) * ScoreScale)
      + Log1pMilli(notes)

\* rawScore = likes * 3 + reposts * 2 + comments * 2 + views, views = 0
RawScore(b) == Len(b.likes) * 3 + Len(b.reposts) * 2 + b.comments * 2 + 0

\* the score multiplied by the decay instead of divided by it
TrendingScoreGrowing(b, at) ==
  LET hoursSinceCreated == IF at >= b.createdAt THEN at - b.createdAt
                           ELSE b.createdAt - at
  IN  RawScore(b) * Pow12Milli(hoursSinceCreated)

\* score = rawScore / Math.pow(hoursSinceCreated + 2, 1.2)
TrendingScore(b, at) ==
  LET hoursSinceCreated == IF at >= b.createdAt THEN at - b.createdAt
                           ELSE b.createdAt - at
  IN  (RawScore(b) * ScoreScale * ScoreScale) \div Pow12Milli(hoursSinceCreated)

\* Bulletin.find({createdAt: {$gte: interestSince}, tags: {$in: topTags}}),
\* scored and sorted by score, highest first
InterestPosts(tagMap, at) ==
  LET topTags == TopTags(tagMap)
      interestSince == at - INTEREST_WINDOW_DAYS * HoursPerDay
      found == FindBulletins({i \in DOMAIN bulletins :
                              /\ bulletins[i].createdAt >= interestSince
                              /\ TagSet(bulletins[i].tags) \cap topTags # {}})
      scored == [k \in DOMAIN found |->
                   [id |-> found[k],
                    score |-> InterestScore(bulletins[found[k]], tagMap, at)]]
  IN  IF Len(tagMap) = 0 THEN <<>> ELSE SortDescBy(scored, [k \in DOMAIN scored |-> ScoreOf(scored[k])])

\* the friends of a user taken from the edges the user requested only
FriendIdsRequested(userId) ==
  LET edgeIds == [i \in 1..(nextEdge - 1) |-> i]
      found == SelectSeq(edgeIds, LAMBDA e :
                 /\ e \in DOMAIN friendships
                 /\ friendships[e].status = "accepted"
                 /\ friendships[e].requester = userId)
  IN  [k \in DOMAIN found |-> friendships[found[k]].recipient]

\* Friendship.find({$or: [{requester, accepted}, {recipient, accepted}]}) and
\* friendIds = friendships.map(f => f.requester === userId ? f.recipient : f.requester)
FriendIds(userId) ==
  LET edgeIds == [i \in 1..(nextEdge - 1) |-> i]
      found == SelectSeq(edgeIds, LAMBDA e :
                 /\ e \in DOMAIN friendships
                 /\ friendships[e].status = "accepted"
                 /\ (friendships[e].requester = userId
                     \/ friendships[e].recipient = userId))
  IN  [k \in DOMAIN found |->
         IF friendships[found[k]].requester = userId
           THEN friendships[found[k]].recipient
           ELSE friendships[found[k]].requester]

\* the friend query run for a user without friends too
HasFriendsAlways(friendIds) == TRUE

\* if (friendObjectIds.length) { ... }: the friend query runs only then
HasFriends(friendIds) == Len(friendIds) > 0

\* Bulletin.find({createdAt: {$gte: friendSince},
\*                userId: {$in: [...friendObjectIds, userObjectId]}}),
\* scored and sorted
FriendPosts(userId, friendIds, at) ==
  LET authors == {friendIds[i] : i \in DOMAIN friendIds} \cup {userId}
      friendSince == at - FRIEND_WINDOW_DAYS * HoursPerDay
      found == FindBulletins({i \in DOMAIN bulletins :
                              /\ bulletins[i].createdAt >= friendSince
                              /\ bulletins[i].userId \in authors})
      scored == [k \in DOMAIN found |->
                   [id |-> found[k],
                    score |-> FriendScore(bulletins[found[k]], at)]]
  IN  SortDescBy(scored, [k \in DOMAIN scored |-> ScoreOf(scored[k])])

\* Bulletin.find({repostOf: null, createdAt: {$gte: trendingSince}}),
\* scored and sorted
TrendingPosts(at) ==
  LET trendingSince == at - TRENDING_WINDOW_DAYS_LOCAL * HoursPerDay
      found == FindBulletins({i \in DOMAIN bulletins :
                              /\ bulletins[i].repostOf = NoPost
                              /\ bulletins[i].createdAt >= trendingSince})
      scored == [k \in DOMAIN found |->
                   [id |-> found[k],
                    score |-> TrendingScore(bulletins[found[k]], at)]]
  IN  SortDescBy(scored, [k \in DOMAIN scored |-> ScoreOf(scored[k])])

RECURSIVE DedupeFrom(_, _, _, _)
\* for (const item of arr) if (!seen.has(id)) { seen.add(id); out.push(item) }
\* over the items lo..hi: the first half of the range, then the second half,
\* the first half being complete before the second begins
DedupeFrom(arr, lo, hi, acc) ==
  IF lo > hi THEN acc
  ELSE IF lo = hi
    THEN IF arr[lo].id \in acc.seen THEN acc
         ELSE [out |-> Append(acc.out, arr[lo]), seen |-> acc.seen \cup {arr[lo].id}]
  ELSE LET mid == (lo + hi) \div 2
           firstHalf == DedupeFrom(arr, lo, mid, acc)
       IN  IF Len(firstHalf.out) >= Len(acc.out)
             THEN DedupeFrom(arr, mid + 1, hi, firstHalf)
             ELSE firstHalf

\* dedupe with the seen-check left out
dedupeNone(arr, seen) == [out |-> arr, seen |-> seen \cup Ids(arr)]

dedupe(arr, seen) == DedupeFrom(arr, 1, Len(arr), [out |-> <<>>, seen |-> seen])

\* the selection without any truncation
ChooseUncapped(interestPosts, friendPosts, trendingPosts) ==
  [chosenInterest |-> interestPosts, chosenFriends |-> friendPosts,
   chosenTrending |-> trendingPosts]

\* the selection with the later buckets taking all of the remaining budget
ChooseBackfill(interestPosts, friendPosts, trendingPosts) ==
  LET chosenInterest == Slice(interestPosts, targetInterest)
      chosenFriends == Slice(friendPosts, MAX_TOTAL - Len(chosenInterest))
      chosenTrending == Slice(trendingPosts,
                              MAX_TOTAL - Len(chosenInterest) - Len(chosenFriends))
  IN  [chosenInterest |-> chosenInterest, chosenFriends |-> chosenFriends,
       chosenTrending |-> chosenTrending]

\* the three chosen slices, from the deduplicated lists
Choose(interestPosts, friendPosts, trendingPosts) ==
  LET chosenInterest == Slice(interestPosts, targetInterest)
      remainingAfterInterest == MAX_TOTAL - Len(chosenInterest)
      chosenFriends == Slice(friendPosts, Min(targetFriends, remainingAfterInterest))
      remainingAfterFriends == MAX_TOTAL - Len(chosenInterest) - Len(chosenFriends)
      chosenTrending == Slice(trendingPosts, Min(targetTrending, remainingAfterFriends))
  IN  [chosenInterest |-> chosenInterest, chosenFriends |-> chosenFriends,
       chosenTrending |-> chosenTrending]

\* Math.random() is one of these values, as <<numerator, denominator>>
RandomSamples == {<<0, 1>>, <<999, 1000>>}
\* the values successive calls of Math.random() return repeat with this period
StreamLen == 2
RandomStreams == [1..StreamLen -> RandomSamples]

\* j = Math.floor(Math.random() * (i + 1))
RandomIndex(stream, i) ==
  LET r == stream[(i % StreamLen) + 1]
  IN  (r[1] * (i + 1)) \div r[2]

\* the exchange that overwrites one of the two places
SwapOverwrite(s, a, b) == [s EXCEPT ![a] = s[b]]

\* [combined[i], combined[j]] = [combined[j], combined[i]]
Swap(s, a, b) == [s EXCEPT ![a] = s[b], ![b] = s[a]]

RECURSIVE ShuffleFrom(_, _, _)
\* for (let i = combined.length - 1; i > 0; i--) swap(combined[i], combined[j])
ShuffleFrom(s, i, stream) ==
  IF i <= 0 THEN s
  ELSE ShuffleFrom(Swap(s, i + 1, RandomIndex(stream, i) + 1), i - 1, stream)

FisherYates(s, stream) == ShuffleFrom(s, Len(s) - 1, stream)

\* combined.map(({ _score, ...rest }) => rest)
Strip(items) == [k \in DOMAIN items |-> [id |-> items[k].id]]

\* the two orders a sort on createdAt can leave documents of equal createdAt in
TieOrders == {"insertion", "reverse"}

\* the fallback sorted the wrong way round
FallbackOldest(tie) ==
  LET all == FindBulletins(DOMAIN bulletins)
      keyed == [k \in DOMAIN all |->
                  [id |-> all[k], score |-> 0 - bulletins[all[k]].createdAt]]
  IN  Strip(Slice(SortDescBy(keyed, [k \in DOMAIN keyed |-> ScoreOf(keyed[k])]), MAX_TOTAL))

\* Bulletin.find().sort({createdAt: -1}).limit(MAX_TOTAL)
Fallback(tie) ==
  LET all == FindBulletins(DOMAIN bulletins)
      keyed == [k \in DOMAIN all |->
                  [id |-> all[k],
                   score |-> bulletins[all[k]].createdAt * (nextId + 1)
                             + (IF tie = "insertion" THEN nextId - all[k] ELSE all[k])]]
      sorted == SortDescBy(keyed, [k \in DOMAIN keyed |-> ScoreOf(keyed[k])])
  IN  Strip(Slice(sorted, MAX_TOTAL))

\* ------------------------------------------------------------------------
\* GET /for-you/:userId, one action per await
\* ------------------------------------------------------------------------

\* the request arrives
FyStart(userId) ==
  /\ fy.pc \in {"idle", "done"}
  /\ fy' = [FyIdle EXCEPT !.pc = "user", !.userId = userId]
  /\ UNCHANGED <<now, storeVars, reqs, ops, tr>>

\* const user = await User.findById(userId).lean(); const now = Date.now()
FyUser ==
  /\ fy.pc = "user"
  /\ IF fy.userId \notin Users
       THEN fy' = [fy EXCEPT !.pc = "done", !.status = 404]
       ELSE fy' = [fy EXCEPT !.now = now,
                             !.tagMap = interestTags[fy.userId],
                             !.pc = IF Len(interestTags[fy.userId]) > 0
                                      THEN "interest" ELSE "friendships"]
  /\ UNCHANGED <<now, storeVars, reqs, ops, tr>>

\* const interestCandidates = await Bulletin.find(...); map; sort
FyInterest ==
  /\ fy.pc = "interest"
  /\ fy' = [fy EXCEPT !.rawInterest = InterestPosts(fy.tagMap, fy.now),
                      !.pc = "friendships"]
  /\ UNCHANGED <<now, storeVars, reqs, ops, tr>>

\* const friendships = await Friendship.find(...).lean()
FyFriendships ==
  /\ fy.pc = "friendships"
  /\ LET friendIds == FriendIds(fy.userId)
     IN  fy' = [fy EXCEPT !.friendIds = friendIds,
                          !.pc = IF HasFriends(friendIds) THEN "friends" ELSE "trending"]
  /\ UNCHANGED <<now, storeVars, reqs, ops, tr>>

\* const friendCandidates = await Bulletin.find(...); map; sort
FyFriends ==
  /\ fy.pc = "friends"
  /\ fy' = [fy EXCEPT !.rawFriends = FriendPosts(fy.userId, fy.friendIds, fy.now),
                      !.pc = "trending"]
  /\ UNCHANGED <<now, storeVars, reqs, ops, tr>>

\* the composition with the buckets truncated before they are deduplicated
FyTrendingSliceFirst ==
  /\ fy.pc = "trending"
  /\ LET rawTrending == TrendingPosts(fy.now)
         c == Choose(fy.rawInterest, fy.rawFriends, rawTrending)
         d1 == dedupe(c.chosenInterest, {})
         d2 == dedupe(c.chosenFriends, d1.seen)
         d3 == dedupe(c.chosenTrending, d2.seen)
         combined == d1.out \o d2.out \o d3.out
         composed == [fy EXCEPT !.rawTrending = rawTrending,
                                !.interestPosts = d1.out,
                                !.friendPosts = d2.out,
                                !.trendingPosts = d3.out,
                                !.chosenInterest = d1.out,
                                !.chosenFriends = d2.out,
                                !.chosenTrending = d3.out,
                                !.combined = combined]
     IN  IF Len(combined) = 0
           THEN fy' = [composed EXCEPT !.pc = "fallback"]
           ELSE \E stream \in RandomStreams :
                  fy' = [composed EXCEPT !.pc = "done", !.path = "blend",
                                         !.status = 200,
                                         !.body = Strip(FisherYates(combined, stream))]
  /\ UNCHANGED <<now, storeVars, reqs, ops, tr>>

\* const trendingCandidates = await Bulletin.find(...); map; sort; then, with
\* no further await: dedupe, bucket selection, and either the fallback branch
\* or shuffle, strip and res.json(combined)
FyTrending ==
  /\ fy.pc = "trending"
  /\ LET rawTrending == TrendingPosts(fy.now)
         d1 == dedupe(fy.rawInterest, {})
         d2 == dedupe(fy.rawFriends, d1.seen)
         d3 == dedupe(rawTrending, d2.seen)
         c == Choose(d1.out, d2.out, d3.out)
         combined == c.chosenInterest \o c.chosenFriends \o c.chosenTrending
         composed == [fy EXCEPT !.rawTrending = rawTrending,
                                !.interestPosts = d1.out,
                                !.friendPosts = d2.out,
                                !.trendingPosts = d3.out,
                                !.chosenInterest = c.chosenInterest,
                                !.chosenFriends = c.chosenFriends,
                                !.chosenTrending = c.chosenTrending,
                                !.combined = combined]
     IN  IF Len(combined) = 0
           THEN fy' = [composed EXCEPT !.pc = "fallback"]
           ELSE \E stream \in RandomStreams :
                  fy' = [composed EXCEPT !.pc = "done", !.path = "blend",
                                         !.status = 200,
                                         !.body = Strip(FisherYates(combined, stream))]
  /\ UNCHANGED <<now, storeVars, reqs, ops, tr>>

\* the fallback branch logging a view of the first bulletin it returns
FyFallbackLogsView ==
  /\ fy.pc = "fallback"
  /\ \E tie \in TieOrders :
       /\ fy' = [fy EXCEPT !.pc = "done", !.path = "fallback", !.status = 200,
                           !.body = Fallback(tie)]
       /\ interactions' =
            IF Fallback(tie) = <<>> THEN interactions
            ELSE LogAdd(interactions, [userId |-> fy.userId,
                                       bulletinId |-> Fallback(tie)[1].id,
                                       type |-> "view"])
  /\ UNCHANGED <<now, nextId, bulletins, interestTags, friendships, nextEdge,
                 reqs, ops, tr, communities>>

\* const fallback = await Bulletin.find().sort({createdAt: -1}).limit(MAX_TOTAL);
\* return res.json(fallback)
FyFallback ==
  /\ fy.pc = "fallback"
  /\ \E tie \in TieOrders :
       fy' = [fy EXCEPT !.pc = "done", !.path = "fallback", !.status = 200,
                        !.body = Fallback(tie)]
  /\ UNCHANGED <<now, storeVars, reqs, ops, tr>>

\* a rejected read answered with what the generators have produced so far
FyReadFailsPartial ==
  /\ fy.pc \in {"user", "interest", "friendships", "friends", "trending", "fallback"}
  /\ fy' = [fy EXCEPT !.pc = "done", !.path = "none", !.status = 200,
                      !.body = Strip(fy.rawInterest \o fy.rawFriends)]
  /\ UNCHANGED <<now, storeVars, reqs, ops, tr>>

\* any of the awaited reads rejects: catch (err) { res.status(500).json(...) }
FyReadFails ==
  /\ fy.pc \in {"user", "interest", "friendships", "friends", "trending", "fallback"}
  /\ fy' = [fy EXCEPT !.pc = "done", !.path = "none", !.status = 500, !.body = <<>>]
  /\ UNCHANGED <<now, storeVars, reqs, ops, tr>>

FyStep ==
  \/ FyUser \/ FyInterest \/ FyFriendships \/ FyFriends
  \/ FyTrending \/ FyFallback

\* ------------------------------------------------------------------------
\* GET /trending
\* ------------------------------------------------------------------------

TRENDING_WINDOW_DAYS == 4
TRENDING_CANDIDATE_LIMIT == 500
thresholdScore == 5

\* the decimal digits and their values
DigitValue ==
  [c \in {"0", "1", "2", "3", "4", "5", "6", "7", "8", "9"} |->
     CASE c = "0" -> 0 [] c = "1" -> 1 [] c = "2" -> 2 [] c = "3" -> 3
       [] c = "4" -> 4 [] c = "5" -> 5 [] c = "6" -> 6 [] c = "7" -> 7
       [] c = "8" -> 8 [] OTHER -> 9]

\* a value of req.query.page or req.query.limit, as its characters;
\* <<>> stands for a parameter that is missing
QueryValues ==
  {<<>>, <<"a", "b", "c">>, <<"0">>, <<"-", "1">>, <<"1">>, <<"2">>, <<"3">>,
   <<"2", "x">>, <<"5", "1">>}

NaN == [nan |-> TRUE, n |-> 0]

RECURSIVE ParseDigits(_, _, _)
\* the value of the digits of s from position i on, up to the first non-digit
ParseDigits(s, i, acc) ==
  IF i > Len(s) \/ s[i] \notin DOMAIN DigitValue THEN acc
  ELSE ParseDigits(s, i + 1, acc * 10 + DigitValue[s[i]])

\* parseInt(s, 10): an optional sign and the leading digits, NaN without digits
parseInt(s) ==
  LET signed == Len(s) > 0 /\ s[1] \in {"-", "+"}
      start == IF signed THEN 2 ELSE 1
  IN  IF start > Len(s) \/ s[start] \notin DOMAIN DigitValue THEN NaN
      ELSE [nan |-> FALSE,
            n |-> IF signed /\ s[1] = "-" THEN 0 - ParseDigits(s, start, 0)
                  ELSE ParseDigits(s, start, 0)]

\* x || d: NaN and 0 are falsy
OrDefault(x, d) == IF x.nan \/ x.n = 0 THEN d ELSE x.n

\* getPagination without the cap and the floor on limit
getPaginationUncapped(query) ==
  LET page == Max(OrDefault(parseInt(query.page), 1), 1)
      limit == OrDefault(parseInt(query.limit), 10)
  IN  [page |-> page, limit |-> limit, skip |-> (page - 1) * limit]

\* const page = Math.max(parseInt(req.query.page, 10) || 1, 1);
\* const limit = Math.min(Math.max(parseInt(req.query.limit, 10) || 10, 1), 50);
\* const skip = (page - 1) * limit
getPagination(query) ==
  LET page == Max(OrDefault(parseInt(query.page), 1), 1)
      limit == Min(Max(OrDefault(parseInt(query.limit), 10), 1), 50)
  IN  [page |-> page, limit |-> limit, skip |-> (page - 1) * limit]

\* .populate('reposts'): references to deleted documents drop out of the array
Populated(ids) == SelectSeq(ids, LAMBDA i : i \in DOMAIN bulletins)

\* finalScore = rawScore / Math.pow(hoursSinceCreated + 2, 1.2), with
\* rawScore = likes * 3 + reposts * 2 + comments * 2 + views, views = 0
FinalScore(b, at) ==
  LET rawScore == Len(b.likes) * 3 + Len(Populated(b.reposts)) * 2
                  + b.comments * 2 + 0
      hoursSinceCreated == IF at >= b.createdAt THEN at - b.createdAt
                           ELSE b.createdAt - at
  IN  (rawScore * ScoreScale * ScoreScale) \div Pow12Milli(hoursSinceCreated)

\* the filter that lets every scored bulletin through
PassesAlways(score) == TRUE

\* entry.score >= thresholdScore
PassesThreshold(score) == score >= thresholdScore * ScoreScale

\* Bulletin.find({repostOf: null, createdAt: {$gte: windowStart}})
\*   .sort({createdAt: -1}).limit(TRENDING_CANDIDATE_LIMIT), then scored
ScoredBulletins(windowStart, at, tie) ==
  LET found == FindBulletins({i \in DOMAIN bulletins :
                              /\ bulletins[i].repostOf = NoPost
                              /\ bulletins[i].createdAt >= windowStart})
      keyed == [k \in DOMAIN found |->
                  [id |-> found[k],
                   score |-> bulletins[found[k]].createdAt * (nextId + 1)
                             + (IF tie = "insertion" THEN nextId - found[k]
                                ELSE found[k])]]
      sorted == Slice(SortDescBy(keyed, [k \in DOMAIN keyed |-> ScoreOf(keyed[k])]),
                      TRENDING_CANDIDATE_LIMIT)
  IN  [k \in DOMAIN sorted |->
         [id |-> sorted[k].id, score |-> FinalScore(bulletins[sorted[k].id], at)]]

\* scoredBulletins.filter(entry => entry.score >= thresholdScore)
Filtered(scored) == SelectSeq(scored, LAMBDA entry : PassesThreshold(entry.score))

\* orderedBulletins.slice(skip, skip + limit)
SliceFrom(arr, skip, end) == SubSeq(arr, skip + 1, Min(end, Len(arr)))

TrIdle ==
  [pc |-> "idle", query |-> [page |-> <<>>, limit |-> <<>>],
   page |-> 0, limit |-> 0, skip |-> 0, windowStart |-> 0, now |-> 0,
   scored |-> <<>>, filtered |-> <<>>,
   status |-> 0, items |-> <<>>, total |-> 0, hasMore |-> FALSE]

\* the request arrives: getPagination(req) and windowStart
TrStart(query) ==
  /\ tr.pc \in {"idle", "done"}
  /\ LET p == getPagination(query)
     IN  tr' = [TrIdle EXCEPT !.pc = "find", !.query = query,
                              !.page = p.page, !.limit = p.limit, !.skip = p.skip,
                              !.windowStart = now - TRENDING_WINDOW_DAYS * HoursPerDay]
  /\ UNCHANGED <<now, storeVars, reqs, ops, fy>>

\* const bulletins = await Bulletin.find(...); then, with no further await:
\* score, filter, shuffle, slice and res.json({items, page, limit, total, hasMore})
TrFind ==
  /\ tr.pc = "find"
  /\ \E tie \in TieOrders, stream \in RandomStreams :
       LET scored == ScoredBulletins(tr.windowStart, now, tie)
           filtered == Filtered(scored)
           orderedBulletins == Strip(FisherYates(filtered, stream))
           total == Len(orderedBulletins)
           sliced == SliceFrom(orderedBulletins, tr.skip, tr.skip + tr.limit)
       IN  tr' = [tr EXCEPT !.pc = "done", !.status = 200, !.now = now,
                            !.scored = scored, !.filtered = filtered,
                            !.items = sliced, !.total = total,
                            !.hasMore = (tr.skip + Len(sliced) < total)]
  /\ UNCHANGED <<now, storeVars, reqs, ops, fy>>

\* the awaited read rejects: catch (err) { res.status(500).json(...) }
TrReadFails ==
  /\ tr.pc = "find"
  /\ tr' = [tr EXCEPT !.pc = "done", !.status = 500]
  /\ UNCHANGED <<now, storeVars, reqs, ops, fy>>

\* ------------------------------------------------------------------------
\* Interest profile update
\* ------------------------------------------------------------------------

\* INTERACTION_WEIGHTS, in half units
INTERACTION_WEIGHTS ==
  [like |-> 3 * WeightScale, repost |-> 4 * WeightScale,
   comment |-> 4 * WeightScale, view |-> 1]

\* the weight without the default for unknown types
WeightForNoDefault(interactionType) ==
  IF interactionType \in DOMAIN INTERACTION_WEIGHTS
    THEN INTERACTION_WEIGHTS[interactionType]
    ELSE 0

\* const weight = INTERACTION_WEIGHTS[interactionType] || 1
WeightFor(interactionType) ==
  IF interactionType \in DOMAIN INTERACTION_WEIGHTS
    THEN INTERACTION_WEIGHTS[interactionType]
    ELSE 1 * WeightScale

\* the update without the ceiling
ClampNone(w) == w

\* const updated = Math.min(current + weight, 200)
Clamp(w) == Min(w, MAX_WEIGHT * WeightScale)

RECURSIVE ApplyTags(_, _, _)
\* bulletin.tags.forEach(tag => user.interestTags.set(tag, updated))
ApplyTags(m, tags, weight) ==
  IF tags = <<>> THEN m
  ELSE ApplyTags(MapSet(m, Head(tags), Clamp(MapGet(m, Head(tags)) + weight)),
                 Tail(tags), weight)

\* the entries of the Map that set() marked modified: those whose value changed
Modified(before, after) ==
  SelectSeq(after, LAMBDA e : e.tag \notin MapKeys(before) \/ MapGet(before, e.tag) # e.w)

RECURSIVE WriteEntries(_, _)
\* user.save(): $set of every modified key of the Map
WriteEntries(m, entries) ==
  IF entries = <<>> THEN m
  ELSE WriteEntries(MapSet(m, Head(entries).tag, Head(entries).w), Tail(entries))

\* ------------------------------------------------------------------------
\* Interaction requests: like, repost, comment, view
\* ------------------------------------------------------------------------

ReqIds == {"r1", "r2"}
Kinds == {"like", "repost", "comment", "view"}
\* the values of Interaction.type
InteractionTypes == Kinds \cup {"click"}
\* the users who send interaction requests
Actors == {"u1", "u2"}

ReqIdle ==
  [kind |-> "none", type |-> "none", pc |-> "idle", userId |-> Ghost, id |-> NoPost,
   orig |-> NoPost, liked |-> FALSE, newId |-> NoPost, upd |-> <<>>,
   failed |-> FALSE, status |-> 0]

Quiet == \A r \in ReqIds : reqs[r].pc \in {"idle", "done"}

RECURSIVE OriginalFrom(_, _)
\* while (current && current.repostOf) current = await Bulletin.findById(...)
\* return current || bulletin
OriginalFrom(current, bulletin) ==
  IF current \notin DOMAIN bulletins THEN bulletin
  ELSE IF bulletins[current].repostOf = NoPost THEN current
  ELSE OriginalFrom(bulletins[current].repostOf, bulletin)

findOriginalBulletin(bulletin) == OriginalFrom(bulletin, bulletin)

\* the bulletin whose tags the handler passes to updateUserInterestTags
UpdateTarget(q) == IF q.kind \in {"like", "repost"} THEN q.orig ELSE q.id

Respond(q, status) == [q EXCEPT !.pc = "done", !.status = status]

\* reposts that in-flight requests have yet to save
PendingReposts ==
  Cardinality({r \in ReqIds : reqs[r].kind = "repost"
                               /\ reqs[r].pc \in {"find", "saveRepost"}})

\* the request arrives
ReqStart(r, kind, userId, id) ==
  /\ reqs[r].pc \in {"idle", "done"}
  /\ ops < MaxOps
  /\ kind = "repost" => nextId + PendingReposts <= MaxPosts
  /\ ops' = ops + 1
  /\ reqs' = [reqs EXCEPT ![r] =
       [ReqIdle EXCEPT !.kind = kind, !.type = kind, !.userId = userId, !.id = id,
                       !.pc = IF kind = "view" THEN "log" ELSE "find"]]
  /\ UNCHANGED <<now, storeVars, fy, tr>>

\* updateUserInterestTags(userId, bulletinId, interactionType), called on its own
UpdateCall(r, userId, bulletinId, interactionType) ==
  /\ reqs[r].pc \in {"idle", "done"}
  /\ ops < MaxOps
  /\ ops' = ops + 1
  /\ reqs' = [reqs EXCEPT ![r] =
       [ReqIdle EXCEPT !.kind = "update", !.type = interactionType,
                       !.userId = userId, !.id = bulletinId, !.pc = "read"]]
  /\ UNCHANGED <<now, storeVars, fy, tr>>

\* await Bulletin.findById(req.params.id), 404 when missing;
\* like and repost then resolve the original
ReqFind(r) ==
  LET q == reqs[r] IN
  /\ q.pc = "find"
  /\ IF q.id \notin DOMAIN bulletins
       THEN reqs' = [reqs EXCEPT ![r] = Respond(q, 404)]
       ELSE LET orig == IF q.kind = "comment" THEN q.id ELSE findOriginalBulletin(q.id)
                liked == /\ q.kind = "like"
                         /\ \E i \in DOMAIN bulletins[orig].likes :
                              bulletins[orig].likes[i] = q.userId
            IN  reqs' = [reqs EXCEPT ![r] =
                  [q EXCEPT !.orig = orig, !.liked = liked,
                            !.pc = CASE q.kind = "like" ->
                                          IF liked THEN "saveDoc" ELSE "log"
                                     [] q.kind = "repost" -> "saveRepost"
                                     [] OTHER -> "saveDoc"]]
  /\ UNCHANGED <<now, storeVars, ops, fy, tr>>

\* await repostBulletin.save(): the repost carries no tags
ReqSaveRepost(r) ==
  LET q == reqs[r] IN
  /\ q.pc = "saveRepost"
  /\ nextId <= MaxPosts
  /\ bulletins' = [i \in DOMAIN bulletins \cup {nextId} |->
                     IF i = nextId THEN NewBulletin(q.userId, <<>>, q.orig, now)
                     ELSE bulletins[i]]
  /\ nextId' = nextId + 1
  /\ reqs' = [reqs EXCEPT ![r] = [q EXCEPT !.newId = nextId, !.pc = "saveDoc"]]
  /\ UNCHANGED <<now, interestTags, friendships, nextEdge, interactions, ops, fy, tr, communities>>

\* like: original.likes.push / pull; repost: original.reposts.push;
\* comment: bulletin.comments.push; then await save().
\* save() rejects when the document has been deleted meanwhile (500).
ReqSaveDoc(r) ==
  LET q == reqs[r] IN
  /\ q.pc = "saveDoc"
  /\ IF q.orig \notin DOMAIN bulletins
       THEN /\ reqs' = [reqs EXCEPT ![r] = Respond(q, 500)]
            /\ UNCHANGED bulletins
       ELSE /\ bulletins' = [bulletins EXCEPT ![q.orig] =
                 CASE q.kind = "like" ->
                        IF q.liked
                          THEN [@ EXCEPT !.likes = SelectSeq(@, LAMBDA u : u # q.userId)]
                          ELSE [@ EXCEPT !.likes = Append(@, q.userId)]
                   [] q.kind = "repost" -> [@ EXCEPT !.reposts = Append(@, q.newId)]
                   [] OTHER -> [@ EXCEPT !.comments = @ + 1]]
            /\ reqs' = [reqs EXCEPT ![r] =
                 IF q.kind = "like" THEN Respond(q, 200)
                 ELSE [q EXCEPT !.pc = "log"]]
  /\ UNCHANGED <<now, nextId, interestTags, friendships, nextEdge, interactions,
                 ops, fy, tr, communities>>

\* await Interaction.create({userId, bulletinId, type})
ReqLog(r) ==
  LET q == reqs[r] IN
  /\ q.pc = "log"
  /\ interactions' = LogAdd(interactions,
       [userId |-> q.userId, bulletinId |-> UpdateTarget(q), type |-> q.type])
  /\ reqs' = [reqs EXCEPT ![r] = [q EXCEPT !.pc = "read"]]
  /\ UNCHANGED <<now, nextId, bulletins, interestTags, friendships, nextEdge,
                 ops, fy, tr, communities>>

\* the response once updateUserInterestTags has returned
AfterUpdate(q) ==
  CASE q.kind = "like" -> [q EXCEPT !.pc = "saveDoc"]
    [] q.kind = "repost" -> Respond(q, 201)
    [] OTHER -> Respond(q, 200)

\* the early return taken for a missing user or bulletin only
EarlyReturnUntagged(userId, bulletinId) ==
  \/ userId \notin Users
  \/ bulletinId \notin DOMAIN bulletins

\* if (!user || !bulletin || !bulletin.tags?.length) return
EarlyReturn(userId, bulletinId) ==
  \/ userId \notin Users
  \/ bulletinId \notin DOMAIN bulletins
  \/ Len(bulletins[bulletinId].tags) = 0

\* updateUserInterestTags: Promise.all([User.findById, Bulletin.findById]),
\* the early return, and the forEach over the tags
ReqRead(r) ==
  LET q == reqs[r]
      bulletinId == UpdateTarget(q)
  IN
  /\ q.pc = "read"
  /\ IF EarlyReturn(q.userId, bulletinId)
       THEN reqs' = [reqs EXCEPT ![r] = AfterUpdate(q)]
       ELSE LET before == interestTags[q.userId]
                after == ApplyTags(before, bulletins[bulletinId].tags, WeightFor(q.type))
            IN  reqs' = [reqs EXCEPT ![r] =
                  [q EXCEPT !.upd = Modified(before, after), !.pc = "saveUser"]]
  /\ UNCHANGED <<now, storeVars, ops, fy, tr>>

\* updateUserInterestTags: await user.save()
ReqSaveUser(r) ==
  LET q == reqs[r] IN
  /\ q.pc = "saveUser"
  /\ interestTags' = [interestTags EXCEPT ![q.userId] = WriteEntries(@, q.upd)]
  /\ reqs' = [reqs EXCEPT ![r] = AfterUpdate(q)]
  /\ UNCHANGED <<now, nextId, bulletins, friendships, nextEdge, interactions,
                 ops, fy, tr, communities>>

\* updateUserInterestTags rejects: User.findById, Bulletin.findById or
\* user.save() throws.  The handlers await the call inside their try block,
\* so the rejection reaches catch (err) { res.status(500).json(...) }; a
\* direct call just rejects.
ReqUpdateFails(r) ==
  LET q == reqs[r] IN
  /\ q.pc \in {"read", "saveUser"}
  /\ reqs' = [reqs EXCEPT ![r] =
       [q EXCEPT !.pc = "done", !.failed = TRUE,
                 !.status = IF q.kind = "update" THEN 0 ELSE 500]]
  /\ UNCHANGED <<now, storeVars, ops, fy, tr>>

ReqStep(r) ==
  \/ ReqFind(r) \/ ReqSaveRepost(r) \/ ReqSaveDoc(r)
  \/ ReqLog(r) \/ ReqRead(r) \/ ReqSaveUser(r)

\* ------------------------------------------------------------------------
\* The other operations on the store
\* ------------------------------------------------------------------------

\* the instants at which the clock is observed
ClockValues == {0, 100, 505}

\* time passes
Tick ==
  /\ \E t \in ClockValues : t > now /\ now' = t
  /\ UNCHANGED <<storeVars, reqs, ops, fy, tr>>

\* POST /: the bulletin is saved with the tags the tagger returned
CreateBulletin(userId, tags) ==
  /\ nextId + PendingReposts <= MaxPosts
  /\ bulletins' = [i \in DOMAIN bulletins \cup {nextId} |->
                     IF i = nextId THEN NewBulletin(userId, tags, NoPost, now)
                     ELSE bulletins[i]]
  /\ nextId' = nextId + 1
  /\ UNCHANGED <<now, interestTags, friendships, nextEdge, interactions,
                 reqs, ops, fy, tr, communities>>

RECURSIVE RepostsRecursive(_, _)
\* deleteRepostsRecursive: the reposts of the bulletin, and theirs;
\* depth bounds the recursion by the number of documents
RepostsRecursive(ids, depth) ==
  LET more == {i \in DOMAIN bulletins : bulletins[i].repostOf \in ids}
  IN  IF depth = 0 \/ more \subseteq ids THEN ids
      ELSE RepostsRecursive(ids \cup more, depth - 1)

\* DELETE /:id: 404 when missing, else the bulletin and its reposts go
DeleteBulletin(id) ==
  /\ id \in DOMAIN bulletins
  /\ LET gone == RepostsRecursive({id}, Cardinality(DOMAIN bulletins))
     IN  bulletins' = [i \in DOMAIN bulletins \ gone |-> bulletins[i]]
  /\ UNCHANGED <<now, nextId, interestTags, friendships, nextEdge, interactions,
                 reqs, ops, fy, tr, communities>>

\* POST /request: 400 when the same requester already asked the same recipient
FriendRequest(requesterId, recipientId) ==
  /\ nextEdge <= MaxEdges
  /\ ~ \E e \in DOMAIN friendships :
         /\ friendships[e].requester = requesterId
         /\ friendships[e].recipient = recipientId
  /\ friendships' = [e \in DOMAIN friendships \cup {nextEdge} |->
                       IF e = nextEdge THEN NewFriendship(requesterId, recipientId)
                       ELSE friendships[e]]
  /\ nextEdge' = nextEdge + 1
  /\ UNCHANGED <<now, nextId, bulletins, interestTags, interactions, reqs, ops, fy, tr, communities>>

\* POST /:id/accept
FriendAccept(e) ==
  /\ e \in DOMAIN friendships
  /\ friendships[e].status # "accepted"
  /\ friendships' = [friendships EXCEPT ![e].status = "accepted"]
  /\ UNCHANGED <<now, nextId, bulletins, interestTags, nextEdge, interactions,
                 reqs, ops, fy, tr, communities>>

\* POST /:id/decline: Friendship.findByIdAndDelete(id)
FriendDecline(e) ==
  /\ e \in DOMAIN friendships
  /\ friendships' = [x \in DOMAIN friendships \ {e} |-> friendships[x]]
  /\ UNCHANGED <<now, nextId, bulletins, interestTags, nextEdge, interactions,
                 reqs, ops, fy, tr, communities>>

\* POST /remove-by-users: findOneAndDelete of the first edge joining the two
FriendRemove(userId1, userId2) ==
  /\ LET joins == {e \in DOMAIN friendships :
                     \/ /\ friendships[e].requester = userId1
                        /\ friendships[e].recipient = userId2
                     \/ /\ friendships[e].requester = userId2
                        /\ friendships[e].recipient = userId1}
     IN  /\ joins # {}
         /\ LET first == CHOOSE e \in joins : \A x \in joins : e <= x
            IN  friendships' = [x \in DOMAIN friendships \ {first} |-> friendships[x]]
  /\ UNCHANGED <<now, nextId, bulletins, interestTags, nextEdge, interactions,
                 reqs, ops, fy, tr, communities>>

\* ------------------------------------------------------------------------
\* Specifications
\* ------------------------------------------------------------------------

EmptyStore == [i \in {} |-> 0]
\* no community exists
NoCommunities == EmptyStore
NoProfiles == [u \in Users |-> <<>>]

\* u1 has viewed the bulletin of u2 this many times before the first state
InitViews == {0, 399}

\* Either the empty store, or the store after u2 posted a bulletin tagged
\* retro, y2k and u1 viewed it InitViews times.
Init ==
  /\ communities = NoCommunities
  /\ now = 0
  /\ friendships = EmptyStore
  /\ nextEdge = 1
  /\ reqs = [r \in ReqIds |-> ReqIdle]
  /\ ops = 0
  /\ fy = FyIdle
  /\ tr = TrIdle
  /\ \E views \in InitViews :
       IF views = 0
         THEN /\ nextId = 1
              /\ bulletins = EmptyStore
              /\ interestTags = NoProfiles
              /\ interactions = EmptyStore
         ELSE /\ nextId = 2
              /\ bulletins = (1 :> NewBulletin("u2", <<"retro", "y2k">>, NoPost, 0))
              /\ interestTags = [NoProfiles EXCEPT !["u1"] =
                   <<[tag |-> "retro", w |-> Clamp(views)],
                     [tag |-> "y2k", w |-> Clamp(views)]>>]
              /\ interactions =
                   ([userId |-> "u1", bulletinId |-> 1, type |-> "view"] :> views)

\* POST / and DELETE /:id
Bulletins(authors) ==
  \/ \E u \in authors, tags \in TagLists : CreateBulletin(u, tags)
  \/ \E id \in 1..MaxPosts : DeleteBulletin(id)

\* the friendship routes
Friends ==
  \/ \E a \in Actors, b \in Actors : FriendRequest(a, b)
  \/ \E e \in 1..MaxEdges : FriendAccept(e)
  \/ \E e \in 1..MaxEdges : FriendDecline(e)
  \/ \E a \in Actors, b \in Actors : FriendRemove(a, b)

\* the second slot is taken only while the first is busy
Requests ==
  \/ \E r \in ReqIds, kind \in Kinds, u \in Actors, id \in 1..MaxPosts :
       /\ r = "r2" => reqs["r1"].pc \notin {"idle", "done"}
       /\ ReqStart(r, kind, u, id)
  \/ \E r \in ReqIds : ReqStep(r)

Feed ==
  \/ \E u \in UserIds : FyStart(u)
  \/ FyStep
  \/ FyReadFails

\* Bulletins are created and deleted while like, repost, comment and view
\* requests run; the requests interleave at every await.
Next == Bulletins({"u2"}) \/ Requests

Spec == Init /\ [][Next]_vars

\* The same operations, one request at a time: an operation starts only
\* when no request is in flight.
NextSeq ==
  \/ Quiet /\ Bulletins({"u2"})
  \/ \E kind \in Kinds, u \in Actors, id \in 1..MaxPosts :
       Quiet /\ ReqStart("r1", kind, u, id)
  \/ ReqStep("r1")

SpecSeq == Init /\ [][NextSeq]_vars

\* One request at a time, as in SpecSeq, where a read or the save of
\* updateUserInterestTags may reject.
NextFaulty ==
  \/ NextSeq
  \/ ReqUpdateFails("r1")

SpecFaulty == Init /\ [][NextFaulty]_vars

\* Friend requests between two users are sent, accepted, declined and
\* removed, the two post bulletins and time passes, one operation at a time;
\* their For You requests run in between, every read succeeding, over a
\* store that stays as it is while a request runs.
FyQuiet == fy.pc \in {"idle", "done"}

NextSocial ==
  \/ \E a \in Actors : \E b \in Actors \ {a} : FyQuiet /\ FriendRequest(a, b)
  \/ \E e \in 1..MaxEdges : FyQuiet /\ FriendAccept(e)
  \/ \E a \in Actors : \E b \in Actors \ {a} : FyQuiet /\ FriendRemove(a, b)
  \/ \E e \in 1..MaxEdges : FyQuiet /\ FriendDecline(e)
  \/ \E u \in Actors : FyQuiet /\ CreateBulletin(u, <<>>)
  \/ FyQuiet /\ Tick
  \/ \E u \in Actors : FyStart(u)
  \/ FyStep

SpecSocial == Init /\ [][NextSocial]_vars

\* ------------------------------------------------------------------------
\* The feed over a large store
\* ------------------------------------------------------------------------

\* A store with enough bulletins to fill the buckets.  u3 has posted
\* nT untagged originals and then nI originals tagged retro; u2 has posted
\* nB originals tagged retro, y2k and then reposted bulletin 1 nF times;
\* bulletins get their ids in that order, FeedPostsPerHour of them an hour.
\* u1 may have viewed the first tagged bulletin, and u1 and u2 may be joined
\* by a friendship edge.  The request arrives `delay` hours after the last
\* bulletin.
FeedTrendingSizes == {0, 20, targetTrending + 1}
FeedInterestSizes == {0, 20, targetInterest + 1}
FeedFriendSizes == {0, 20, targetFriends + 1}
FeedBothSizes == {0, 2}
FeedEdges == {"none", "pending", "accepted", "reverse"}
FeedDelays == {0, 100, 505}
FeedPostsPerHour == 8

FeedBulletin(id, nT, nI, nB, nF) ==
  LET createdAt == id \div FeedPostsPerHour
      doc == IF id <= nT THEN NewBulletin("u3", <<>>, NoPost, createdAt)
             ELSE IF id <= nT + nI THEN NewBulletin("u3", <<"retro">>, NoPost, createdAt)
             ELSE IF id <= nT + nI + nB
               THEN NewBulletin("u2", <<"retro", "y2k">>, NoPost, createdAt)
             ELSE NewBulletin("u2", <<>>, 1, createdAt)
  IN  IF id = 1 /\ nF > 0
        THEN [doc EXCEPT !.reposts = [k \in 1..nF |-> nT + nI + nB + k]]
        ELSE doc

InitFeed ==
  /\ communities = NoCommunities
  /\ reqs = [r \in ReqIds |-> ReqIdle]
  /\ ops = 0
  /\ fy = FyIdle
  /\ tr = TrIdle
  /\ \E nT \in FeedTrendingSizes, nI \in FeedInterestSizes, nB \in FeedBothSizes,
        nF \in FeedFriendSizes, edge \in FeedEdges, delay \in FeedDelays,
        viewed \in BOOLEAN :
       LET n == nT + nI + nB + nF
           first == FeedBulletin(1, nT, nI, nB, nF)
           reposted == IF nF > 0
                         THEN ApplyTags(<<>>, first.tags, Clamp(nF * WeightFor("repost")))
                         ELSE <<>>
           seen == IF viewed THEN (nT + 1) ELSE NoPost
       IN
       /\ nF > 0 => nT + nI + nB > 0
       /\ viewed => nI + nB > 0
       /\ nextId = n + 1
       /\ bulletins = [id \in 1..n |-> FeedBulletin(id, nT, nI, nB, nF)]
       /\ now = (n \div FeedPostsPerHour) + delay
       /\ interestTags =
            [NoProfiles EXCEPT
               !["u1"] = IF viewed
                           THEN ApplyTags(<<>>, FeedBulletin(seen, nT, nI, nB, nF).tags,
                                          WeightFor("view"))
                           ELSE <<>>,
               !["u2"] = reposted]
       /\ interactions =
            (IF viewed
               THEN ([userId |-> "u1", bulletinId |-> seen, type |-> "view"] :> 1)
               ELSE EmptyStore)
            @@ (IF nF > 0
                  THEN ([userId |-> "u2", bulletinId |-> 1, type |-> "repost"] :> nF)
                  ELSE EmptyStore)
       /\ IF edge = "none"
            THEN friendships = EmptyStore /\ nextEdge = 1
            ELSE /\ nextEdge = 2
                 /\ friendships =
                      (1 :> [requester |-> IF edge = "reverse" THEN "u2" ELSE "u1",
                             recipient |-> IF edge = "reverse" THEN "u1" ELSE "u2",
                             status |-> IF edge = "pending" THEN "pending"
                                        ELSE "accepted"])

NextFeed == Feed

SpecFeed == InitFeed /\ [][NextFeed]_vars

\* ------------------------------------------------------------------------
\* The read-only endpoints over a store with engagement
\* ------------------------------------------------------------------------

\* A store whose bulletins differ in engagement and age.  At hour 0 u3 may
\* have posted an untagged original that drew 700 comments; at hour 100 u2
\* posted nHot originals tagged retro that drew 6 comments each from u3, u3
\* may have posted an untagged original nobody reacted to, and u1 may have
\* reposted the first of u2's originals, the repost drawing 6 comments too.
\* u1 and u2 are friends.  The requests arrive `delay` hours later.
TrendingHotSizes == {0, 1, 3}
TrendingDelays == {0, 1, 600}

TrendingStore(old, nHot, cold, repost) ==
  LET nOld == IF old THEN 1 ELSE 0
      nCold == IF cold THEN 1 ELSE 0
      repostId == nOld + nHot + nCold + 1
      n == nOld + nHot + nCold + (IF repost THEN 1 ELSE 0)
  IN  [id \in 1..n |->
         IF id <= nOld
           THEN [NewBulletin("u3", <<>>, NoPost, 0) EXCEPT !.comments = 700]
         ELSE IF id <= nOld + nHot
           THEN [NewBulletin("u2", <<"retro">>, NoPost, 100) EXCEPT
                   !.comments = 6,
                   !.reposts = IF repost /\ id = nOld + 1 THEN <<repostId>> ELSE <<>>]
         ELSE IF id <= nOld + nHot + nCold
           THEN NewBulletin("u3", <<>>, NoPost, 100)
         ELSE [NewBulletin("u1", <<>>, nOld + 1, 100) EXCEPT !.comments = 6]]

\* the interaction log that goes with the store
TrendingLog(old, nHot, cold, repost) ==
  LET store == TrendingStore(old, nHot, cold, repost)
      commented == {id \in DOMAIN store : store[id].comments > 0}
      nOld == IF old THEN 1 ELSE 0
  IN  [e \in {[userId |-> "u3", bulletinId |-> id, type |-> "comment"] :
               id \in commented} |-> store[e.bulletinId].comments]
      @@ (IF repost
            THEN ([userId |-> "u1", bulletinId |-> nOld + 1, type |-> "repost"] :> 1)
            ELSE EmptyStore)

InitTrending ==
  /\ communities = NoCommunities
  /\ reqs = [r \in ReqIds |-> ReqIdle]
  /\ ops = 0
  /\ fy = FyIdle
  /\ tr = TrIdle
  /\ nextEdge = 2
  /\ friendships = (1 :> [NewFriendship("u1", "u2") EXCEPT !.status = "accepted"])
  /\ \E old \in BOOLEAN, nHot \in TrendingHotSizes, cold \in BOOLEAN,
        repost \in BOOLEAN, delay \in TrendingDelays :
       LET store == TrendingStore(old, nHot, cold, repost)
       IN
       /\ repost => nHot > 0
       /\ bulletins = store
       /\ nextId = Len(store) + 1
       /\ now = 100 + delay
       /\ interactions = TrendingLog(old, nHot, cold, repost)
       /\ interestTags =
            [NoProfiles EXCEPT
               !["u1"] = IF repost
                           THEN ApplyTags(<<>>, <<"retro">>, WeightFor("repost"))
                           ELSE <<>>,
               !["u3"] = IF nHot > 0
                           THEN ApplyTags(<<>>, <<"retro">>,
                                          Clamp(6 * nHot * WeightFor("comment")))
                           ELSE <<>>]

\* GET /trending with page and limit taken from the given query values
Trending(values) ==
  \/ \E page \in values, limit \in values :
       TrStart([page |-> page, limit |-> limit])
  \/ TrFind
  \/ TrReadFails

\* requests of the trending endpoint, one after the other
NextTrending == Trending(QueryValues)

SpecTrending == InitTrending /\ [][NextTrending]_vars

\* For You requests and trending requests that overlap
NextReads == Feed \/ Trending({<<>>, <<"2">>})

SpecReads == InitTrending /\ [][NextReads]_vars

\* updateUserInterestTags as a function of the profile, the tags of the
\* bulletin and the interaction type: bulletins are created, and the function
\* is called for any user id (that of no user included), bulletin id and
\* type, one call at a time; every read and write of the store succeeds.
NextUpdate ==
  \/ \E u \in Actors, tags \in TagLists : Quiet /\ CreateBulletin(u, tags)
  \/ \E u \in Actors \cup {Ghost}, id \in 1..MaxPosts, type \in InteractionTypes :
       UpdateCall("r1", u, id, type)
  \/ ReqRead("r1")
  \/ ReqSaveUser("r1")

SpecUpdate == Init /\ [][NextUpdate]_vars

\* ------------------------------------------------------------------------
\* Properties of GET /for-you/:userId
\* ------------------------------------------------------------------------

FyOk == fy.pc = "done" /\ fy.status = 200
FyBlend == FyOk /\ fy.path = "blend"
FyFellBack == FyOk /\ fy.path = "fallback"

NoDuplicateIds(items) ==
  \A i \in DOMAIN items, j \in DOMAIN items : i # j => items[i].id # items[j].id

\* the candidates of the three deduplicated source lists
Candidates == Ids(fy.interestPosts) \cup Ids(fy.friendPosts) \cup Ids(fy.trendingPosts)

\* C1: no post id occurs twice in a For You response, on the blended path
\* and on the fallback path alike.
C1NoDuplicates == FyOk => NoDuplicateIds(fy.body)

\* a bulletin that all three generators produced has been returned once
C1Witness ==
  /\ FyBlend
  /\ \E id \in Ids(fy.rawInterest) \cap Ids(fy.rawFriends) \cap Ids(fy.rawTrending) :
       id \in Ids(fy.body)

\* C2: a For You response has at most 50 items, and at most as many as there
\* are distinct candidates in the three deduplicated lists (blended path) or
\* bulletins sitewide (fallback path).
C2Budget ==
  FyOk =>
    /\ Len(fy.body) <= 50
    /\ fy.path = "blend" => Len(fy.body) <= Cardinality(Candidates)
    /\ fy.path = "fallback" => Len(fy.body) <= Cardinality(DOMAIN bulletins)

\* more than 50 candidates, and the response is full
C2Witness == FyBlend /\ Cardinality(Candidates) > 50 /\ Len(fy.body) = 50

\* C3 as stated: unused budget is backfilled, an interest shortfall lets the
\* friend bucket exceed 15 and a shortfall before the trending bucket lets it
\* exceed its own target.
C3Backfill ==
  FyBlend =>
    /\ (Len(fy.chosenInterest) < 25 /\ Len(fy.friendPosts) > 15)
         => Len(fy.chosenFriends) > 15
    /\ (Len(fy.chosenInterest) + Len(fy.chosenFriends) < 40
        /\ Len(fy.trendingPosts) > targetTrending)
         => Len(fy.chosenTrending) > targetTrending

\* C3 amended: no bucket ever takes more than its own target, whatever the
\* earlier buckets left unused: interest min(25, available), friend
\* min(15, available), trending min(10, available).
C3NoBackfill ==
  FyBlend =>
    /\ Len(fy.chosenInterest) = Min(25, Len(fy.interestPosts))
    /\ Len(fy.chosenFriends) = Min(15, Len(fy.friendPosts))
    /\ Len(fy.chosenTrending) = Min(10, Len(fy.trendingPosts))

\* interest is short, friend and trending candidates are left over
C3Witness ==
  /\ FyBlend
  /\ Len(fy.chosenInterest) < 25
  /\ Len(fy.friendPosts) > 15 /\ Len(fy.chosenFriends) = 15
  /\ Len(fy.trendingPosts) > 10 /\ Len(fy.chosenTrending) = 10
  /\ Len(fy.body) < 50

\* C4 as stated: the trending bucket takes
\* min(15, 50 - interest_taken - friend_taken, available).
C4TrendingFifteen ==
  FyBlend =>
    Len(fy.chosenTrending) =
      Min(Min(15, 50 - Len(fy.chosenInterest) - Len(fy.chosenFriends)),
          Len(fy.trendingPosts))

\* C4 amended: the trending target is 50 - 25 - 15 = 10, the bucket takes
\* min(10, 50 - interest_taken - friend_taken, available).
C4TrendingTen ==
  FyBlend =>
    Len(fy.chosenTrending) =
      Min(Min(10, 50 - Len(fy.chosenInterest) - Len(fy.chosenFriends)),
          Len(fy.trendingPosts))

\* more than 10 trending candidates, 10 taken
C4Witness ==
  FyBlend /\ Len(fy.trendingPosts) > 10 /\ Len(fy.chosenTrending) = 10

\* 20 interest, 20 friend and 20 trending candidates, no overlap
EvenSplit ==
  /\ Len(fy.interestPosts) = 20
  /\ Len(fy.friendPosts) = 20
  /\ Len(fy.trendingPosts) = 20

InExactlyOneList(id) ==
  Cardinality({k \in 1..3 :
    id \in Ids(<<fy.interestPosts, fy.friendPosts, fy.trendingPosts>>[k])}) = 1

\* C5 as stated: with an even split of 60 candidates the response has
\* exactly 50 items, each from exactly one source list.
C5FiftyOfSixty ==
  (FyBlend /\ EvenSplit) =>
    /\ Len(fy.body) = 50
    /\ \A i \in DOMAIN fy.body : InExactlyOneList(fy.body[i].id)

\* C5 amended: with an even split of 60 candidates the response has exactly
\* 45 items (20 interest, 15 friend, 10 trending), each from exactly one
\* source list.
C5FortyFiveOfSixty ==
  (FyBlend /\ EvenSplit) =>
    /\ Len(fy.body) = 45
    /\ Len(fy.chosenInterest) = 20
    /\ Len(fy.chosenFriends) = 15
    /\ Len(fy.chosenTrending) = 10
    /\ \A i \in DOMAIN fy.body : InExactlyOneList(fy.body[i].id)

C5Witness == FyBlend /\ EvenSplit /\ Len(fy.body) = 45

\* items is the n most recently created bulletins, newest first
MostRecent(items, n) ==
  /\ Len(items) = n
  /\ NoDuplicateIds(items)
  /\ Ids(items) \subseteq DOMAIN bulletins
  /\ \A i \in DOMAIN items : DOMAIN items[i] = {"id"}
  /\ \A i \in 1..(Len(items) - 1) :
       bulletins[items[i].id].createdAt >= bulletins[items[i + 1].id].createdAt
  /\ \A id \in DOMAIN bulletins \ Ids(items) : \A i \in DOMAIN items :
       bulletins[id].createdAt <= bulletins[items[i].id].createdAt

\* C6: when the three generators of an existing user come back empty and no
\* read fails, the request succeeds with the min(50, N) most recent of the N
\* bulletins sitewide, newest first.
C6Fallback ==
  (/\ fy.pc = "done" /\ fy.status # 500 /\ fy.userId \in Users
   /\ fy.rawInterest = <<>> /\ fy.rawFriends = <<>> /\ fy.rawTrending = <<>>)
  => /\ FyFellBack
     /\ MostRecent(fy.body, Min(50, Cardinality(DOMAIN bulletins)))

\* more than 50 bulletins exist, none is a candidate, 50 are returned
C6Witness ==
  FyFellBack /\ Cardinality(DOMAIN bulletins) > 50 /\ Len(fy.body) = 50

NoAcceptedEdge(userId) ==
  ~ \E e \in DOMAIN friendships :
      /\ friendships[e].status = "accepted"
      /\ userId \in {friendships[e].requester, friendships[e].recipient}

Weight(profiles, userId, tag) == MapGet(profiles[userId], tag)

\* the interaction of request r has read the profile and is about to save it
Saves(r) == reqs[r].pc = "saveUser" /\ reqs'[r].pc # "saveUser"

\* the profile update of request r is called for an existing user and an
\* existing bulletin that has tags
Updates(r) ==
  /\ reqs[r].pc = "read" /\ reqs'[r].pc # "read"
  /\ reqs[r].userId \in Users
  /\ UpdateTarget(reqs[r]) \in DOMAIN bulletins
  /\ bulletins[UpdateTarget(reqs[r])].tags # <<>>

C8Step ==
  LET q == reqs["r1"] IN
  /\ Updates("r1") => reqs'["r1"].pc = "saveUser"
  /\ Saves("r1") =>
       \A t \in TagSet(bulletins[UpdateTarget(q)].tags) :
         Weight(interestTags, q.userId, t) < 400
           => Weight(interestTags', q.userId, t) > Weight(interestTags, q.userId, t)

\* C8: when requests are handled one after the other, every stored weight
\* lies between 0 and 200 (400 half units), and a like, repost, comment or
\* view of a bulletin carrying tag t raises the user's weight for t whenever
\* it was below 200.
C8Weights ==
  /\ [](\A u \in Users : \A i \in DOMAIN interestTags[u] :
          interestTags[u][i].w >= 0 /\ interestTags[u][i].w <= 400)
  /\ [][C8Step]_vars

\* a like has taken the weight of u1 for retro from 199.5 to the ceiling
C8Witness ==
  /\ reqs["r1"].pc = "done" /\ reqs["r1"].kind = "like"
  /\ reqs["r1"].userId = "u1" /\ reqs["r1"].status = 200
  /\ [userId |-> "u1", bulletinId |-> 1, type |-> "view"] \in DOMAIN interactions
  /\ interactions[[userId |-> "u1", bulletinId |-> 1, type |-> "view"]] = 399
  /\ Weight(interestTags, "u1", "retro") = 400

\* C9 as stated: whatever requests overlap, no stored weight ever decreases
\* and no tag ever leaves a profile.
C9Monotone ==
  [][\A u \in Users :
       /\ MapKeys(interestTags[u]) \subseteq MapKeys(interestTags'[u])
       /\ \A t \in Tags : Weight(interestTags', u, t) >= Weight(interestTags, u, t)]_vars

\* the weight the specification gives an interaction type, in half units
StatedWeight(interactionType) ==
  CASE interactionType = "view" -> 1
    [] interactionType = "like" -> 6
    [] interactionType = "repost" -> 8
    [] interactionType = "comment" -> 8
    [] OTHER -> 2

C10Step ==
  LET q == reqs["r1"] IN
  /\ Updates("r1") => reqs'["r1"].pc = "saveUser"
  /\ Saves("r1") =>
       /\ \A t \in Tags :
            Weight(interestTags', q.userId, t) =
              IF t \in TagSet(bulletins[q.id].tags)
                THEN Min(400, Weight(interestTags, q.userId, t) + StatedWeight(q.type))
                ELSE Weight(interestTags, q.userId, t)
       /\ MapKeys(interestTags'[q.userId]) =
            MapKeys(interestTags[q.userId]) \cup TagSet(bulletins[q.id].tags)
       /\ \A u \in Users \ {q.userId} : interestTags'[u] = interestTags[u]

NoOpCall(r) ==
  /\ reqs[r].pc = "read"
  /\ \/ reqs[r].userId \notin Users
     \/ UpdateTarget(reqs[r]) \notin DOMAIN bulletins
     \/ bulletins[UpdateTarget(reqs[r])].tags = <<>>

\* C11: a call of updateUserInterestTags whose user does not exist, whose
\* bulletin does not exist or whose bulletin has no tags returns at once
\* without an error and leaves the interest profile of every user unchanged.
C11NoOp ==
  [][\A r \in ReqIds :
       (NoOpCall(r) /\ reqs'[r] # reqs[r]) =>
         /\ reqs'[r].pc = "done"
         /\ ~ reqs'[r].failed
         /\ interestTags' = interestTags]_vars

\* a call for the id of no user and a bulletin tagged retro, y2k has returned
C11Witness ==
  /\ reqs["r1"].pc = "done" /\ reqs["r1"].kind = "update"
  /\ reqs["r1"].userId = Ghost /\ ~ reqs["r1"].failed
  /\ reqs["r1"].id \in DOMAIN bulletins
  /\ bulletins[reqs["r1"].id].tags = <<"retro", "y2k">>

\* the primary effect of the finished request q is in the store
Persisted(q) ==
  CASE q.kind = "like" ->
         /\ q.orig \in DOMAIN bulletins
         /\ \E i \in DOMAIN bulletins[q.orig].likes : bulletins[q.orig].likes[i] = q.userId
    [] q.kind = "repost" -> q.newId \in DOMAIN bulletins
    [] q.kind = "comment" -> q.id \in DOMAIN bulletins /\ bulletins[q.id].comments > 0
    [] OTHER ->
         [userId |-> q.userId, bulletinId |-> q.id, type |-> q.type] \in DOMAIN interactions

\* C12 as stated: a like, repost, comment or view request whose profile
\* update failed still answers with its success status, and its primary
\* effect is persisted.
C12Swallowed ==
  \A r \in ReqIds :
    (reqs[r].pc = "done" /\ reqs[r].failed /\ reqs[r].kind \in Kinds) =>
      /\ reqs[r].status \in {200, 201}
      /\ Persisted(reqs[r])

\* ------------------------------------------------------------------------
\* Properties of the read-only endpoints
\* ------------------------------------------------------------------------

TrOk == tr.pc = "done" /\ tr.status = 200

\* the candidate lists of the finished For You request are those the store
\* yields for its user and its instant
FyFromStore ==
  /\ fy.tagMap = interestTags[fy.userId]
  /\ fy.rawInterest = InterestPosts(fy.tagMap, fy.now)
  /\ fy.rawFriends = IF HasFriends(FriendIds(fy.userId))
                       THEN FriendPosts(fy.userId, FriendIds(fy.userId), fy.now)
                       ELSE <<>>
  /\ fy.rawTrending = TrendingPosts(fy.now)
  /\ fy.path = "fallback" => \E tie \in TieOrders : fy.body = Fallback(tie)

\* the scored list of the finished trending request is the one the store
\* yields for its instant
TrFromStore ==
  \E tie \in TieOrders :
    /\ tr.scored = ScoredBulletins(tr.windowStart, tr.now, tie)
    /\ tr.filtered = Filtered(tr.scored)

\* C13: no step of a For You request or of a trending request changes the
\* bulletins, the friendship edges, the interest profiles or the interaction
\* log, whichever path the request takes; so what a request returns is
\* determined by the store, whatever requests ran before it or overlap it.
C13ReadOnly ==
  /\ [][(fy' # fy \/ tr' # tr) => UNCHANGED storeVars]_vars
  /\ [](FyOk => FyFromStore)
  /\ [](TrOk => TrFromStore)

\* a For You request fell back to the recent bulletins while a trending
\* request was answered
C13Witness ==
  /\ FyFellBack /\ Len(fy.body) > 0
  /\ TrOk /\ tr.total = 0

\* the trending score of bulletin id at instant `at` is at least 5:
\* (3 likes + 2 reposts + 2 comments) / (age + 2)^1.2 >= 5
ScoresFive(id, at) ==
  LET b == bulletins[id]
      age == IF at >= b.createdAt THEN at - b.createdAt ELSE b.createdAt - at
  IN  (3 * Len(b.likes) + 2 * Len(b.reposts) + 2 * b.comments) * ScoreScale
        >= 5 * Pow12Milli(age)

\* C14: every item a trending request returns, on whatever page, scores at
\* least 5 at the time of the request, is not a repost and was created
\* within the 4 days before the request.
C14Trending ==
  TrOk =>
    \A i \in DOMAIN tr.items :
      /\ tr.items[i].id \in DOMAIN bulletins
      /\ ScoresFive(tr.items[i].id, tr.now)
      /\ bulletins[tr.items[i].id].repostOf = NoPost
      /\ bulletins[tr.items[i].id].createdAt >= tr.now - 4 * 24

\* three originals are returned, while a repost that scores 5, an older
\* original that scores 5 and a recent original without engagement are not
C14Witness ==
  /\ TrOk /\ Len(tr.items) = 3
  /\ \E id \in DOMAIN bulletins \ Ids(tr.items) :
       bulletins[id].repostOf # NoPost /\ ScoresFive(id, tr.now)
  /\ \E id \in DOMAIN bulletins \ Ids(tr.items) :
       /\ bulletins[id].createdAt < tr.now - 4 * 24
       /\ bulletins[id].repostOf = NoPost /\ ScoresFive(id, tr.now)
  /\ \E id \in DOMAIN bulletins \ Ids(tr.items) :
       /\ bulletins[id].createdAt >= tr.now - 4 * 24
       /\ bulletins[id].repostOf = NoPost /\ ~ ScoresFive(id, tr.now)

\* the originals of the last 4 days that score at least 5 at instant `at`
PassingThreshold(at) ==
  {id \in DOMAIN bulletins :
     /\ bulletins[id].repostOf = NoPost
     /\ bulletins[id].createdAt >= at - 4 * 24
     /\ ScoresFive(id, at)}

\* C15: whatever the page and limit query values, a trending response has
\* page >= 1 and 1 <= limit <= 50, total is the number of candidates that
\* passed the threshold, the number of items is
\* min(limit, max(0, total - (page - 1) * limit)), and hasMore holds exactly
\* when (page - 1) * limit + number of items < total.
C15Pagination ==
  TrOk =>
    /\ tr.page >= 1
    /\ tr.limit >= 1 /\ tr.limit <= 50
    /\ tr.total = Cardinality(PassingThreshold(tr.now))
    /\ Len(tr.items) = Min(tr.limit, Max(0, tr.total - (tr.page - 1) * tr.limit))
    /\ tr.hasMore <=> ((tr.page - 1) * tr.limit + Len(tr.items) < tr.total)

\* page=2&limit=-1 over three passing candidates: limit 1, the second
\* candidate is returned and one more is left
C15Witness ==
  /\ TrOk
  /\ tr.query = [page |-> <<"2">>, limit |-> <<"-", "1">>]
  /\ tr.page = 2 /\ tr.limit = 1
  /\ tr.total = 3 /\ Len(tr.items) = 1 /\ tr.hasMore

\* no generator of the For You request has run
NoGeneratorRan ==
  /\ fy.rawInterest = <<>> /\ fy.friendIds = <<>>
  /\ fy.rawFriends = <<>> /\ fy.rawTrending = <<>>
  /\ fy.combined = <<>> /\ fy.path = "none"

\* C16: a For You request for the id of no user is answered 404 (500 when
\* the user read itself fails) before any generator runs; a read that fails,
\* at whatever point of the composition, is answered 500; neither response
\* carries feed items, whatever the generators had produced by then.
C16Errors ==
  /\ [](fy.pc = "done" =>
          /\ fy.status \in {200, 404, 500}
          /\ fy.userId \notin Users => (fy.status \in {404, 500} /\ NoGeneratorRan)
          /\ fy.status = 404 => fy.userId \notin Users
          /\ fy.status # 200 => fy.body = <<>>)
  /\ [][(fy.pc = "user" /\ fy.userId \notin Users /\ fy' # fy) => fy'.pc = "done"]_vars
  /\ [][FyReadFails => (fy'.pc = "done" /\ fy'.status = 500 /\ fy'.body = <<>>)]_vars

\* the trending read failed after the interest and friend generators had
\* produced candidates: 500 and no items
C16Witness ==
  /\ fy.pc = "done" /\ fy.status = 500 /\ fy.body = <<>>
  /\ fy.rawInterest # <<>> /\ fy.rawFriends # <<>>

\* ------------------------------------------------------------------------
\* Properties of repost chains
\* ------------------------------------------------------------------------

\* request r has just resolved the original of the bulletin it was sent for
Resolved(r) ==
  /\ reqs[r].kind \in {"like", "repost"}
  /\ reqs[r].pc = "find" /\ reqs'[r].pc \notin {"find", "done"}

\* C17 as stated: findOriginalBulletin never returns a bulletin that is
\* itself a repost: what a like or repost request resolves is an existing
\* bulletin whose repostOf is null.
C17Original ==
  [][\A r \in ReqIds :
       Resolved(r) =>
         /\ reqs'[r].orig \in DOMAIN bulletins
         /\ bulletins[reqs'[r].orig].repostOf = NoPost]_vars

\* C18 as stated: whatever create, repost and delete requests interleave,
\* every bulletin with a non-null repostOf references an existing bulletin
\* that is not itself a repost.
C18Chains ==
  \A id \in DOMAIN bulletins :
    bulletins[id].repostOf # NoPost =>
      /\ bulletins[id].repostOf \in DOMAIN bulletins
      /\ bulletins[bulletins[id].repostOf].repostOf = NoPost

\* ------------------------------------------------------------------------
\* Properties of friendships
\* ------------------------------------------------------------------------

\* the two users a friendship edge joins
Ends(e) == {friendships[e].requester, friendships[e].recipient}

\* C19 as stated: after any sequence of request, accept, decline and remove
\* operations no two friendship edges join the same unordered pair of users.
C19OneEdge ==
  \A e1 \in DOMAIN friendships, e2 \in DOMAIN friendships :
    e1 # e2 => Ends(e1) # Ends(e2)

\* an accepted edge joins a and b, whichever of them sent the request
AcceptedEdge(a, b) ==
  \E e \in DOMAIN friendships :
    /\ friendships[e].status = "accepted"
    /\ \/ friendships[e].requester = a /\ friendships[e].recipient = b
       \/ friendships[e].requester = b /\ friendships[e].recipient = a

\* C20: when a For You request is answered, a bulletin of another user is a
\* friend candidate exactly if an accepted edge joins its author and the
\* requesting user, in either direction, and it was created within the 4
\* days before the request; a pending edge or no edge never makes a
\* candidate.
C20Friends ==
  [][(fy.pc # "done" /\ fy'.pc = "done" /\ fy'.status = 200) =>
       \A id \in DOMAIN bulletins :
         bulletins[id].userId # fy.userId =>
           (id \in Ids(fy'.rawFriends) <=>
              /\ AcceptedEdge(fy.userId, bulletins[id].userId)
              /\ bulletins[id].createdAt >= fy.now - 4 * 24)]_vars

\* the requesting user is the recipient of an accepted edge and a bulletin
\* of the requester is a friend candidate, while a bulletin of another user
\* outside the 4 days is not
C20Witness ==
  /\ FyOk
  /\ \E e \in DOMAIN friendships :
       /\ friendships[e].status = "accepted"
       /\ friendships[e].recipient = fy.userId
       /\ friendships[e].requester # fy.userId
       /\ \E id \in Ids(fy.rawFriends) :
            id \in DOMAIN bulletins /\ bulletins[id].userId = friendships[e].requester
       /\ \E id \in DOMAIN bulletins \ Ids(fy.rawFriends) :
            /\ bulletins[id].userId = friendships[e].requester
            /\ bulletins[id].createdAt < fy.now - 4 * 24

\* ------------------------------------------------------------------------
\* The interest generator over profiles of up to 17 tags
\* ------------------------------------------------------------------------

\* The tags of a profile in the order the user first met them, and their
\* weights in half units: music 50, art 10, t03 1, t04..t15 20..31, t16 10,
\* t17 30.  Of 17 entries the top 15 leave out t16, which ties with the
\* earlier art, and t03.
ProfileTags ==
  <<"music", "art", "t03", "t04", "t05", "t06", "t07", "t08", "t09", "t10",
    "t11", "t12", "t13", "t14", "t15", "t16", "t17">>
ProfileWeights ==
  <<100, 20, 2, 40, 42, 44, 46, 48, 50, 52, 54, 56, 58, 60, 62, 20, 60>>
ProfileSizes == {0, 2, 15, 17}
Profile(n) == [i \in 1..n |-> [tag |-> ProfileTags[i], w |-> ProfileWeights[i]]]

\* the tag arrays of the bulletins, and the hours at which they are created
InterestTagLists ==
  {<<>>, <<"music">>, <<"art">>, <<"art", "t16">>, <<"t03">>, <<"music", "t03">>}
InterestCreatedAt == {96, 600}
InterestDelays == {0, 10}

\* u2 has posted MaxPosts originals, the first of which u3 may have liked;
\* u1 has a profile of n tags and may be a friend of u2.  The request
\* arrives at hour 600 + delay: a bulletin of hour 96 is then exactly 21 days
\* old, or older.
InitInterest ==
  /\ communities = NoCommunities
  /\ reqs = [r \in ReqIds |-> ReqIdle]
  /\ ops = 0
  /\ fy = FyIdle
  /\ tr = TrIdle
  /\ interactions = EmptyStore
  /\ nextId = MaxPosts + 1
  /\ \E n \in ProfileSizes, delay \in InterestDelays, liked \in BOOLEAN,
        friends \in BOOLEAN,
        tags \in [1..MaxPosts -> InterestTagLists],
        createdAt \in [1..MaxPosts -> InterestCreatedAt] :
       /\ now = 600 + delay
       /\ interestTags = [NoProfiles EXCEPT !["u1"] = Profile(n)]
       /\ bulletins =
            [id \in 1..MaxPosts |->
               [NewBulletin("u2", tags[id], NoPost, createdAt[id]) EXCEPT
                  !.likes = IF liked /\ id = 1 THEN <<"u3">> ELSE <<>>]]
       /\ IF friends
            THEN /\ nextEdge = 2
                 /\ friendships =
                      (1 :> [NewFriendship("u2", "u1") EXCEPT !.status = "accepted"])
            ELSE /\ nextEdge = 1
                 /\ friendships = EmptyStore

\* For You requests of u1, every read succeeding
NextInterest ==
  \/ FyStart("u1")
  \/ FyStep

SpecInterest == InitInterest /\ [][NextInterest]_vars

\* ------------------------------------------------------------------------
\* Properties of the interest generator
\* ------------------------------------------------------------------------

\* the entries of the profile that come before entry i when the profile is
\* ordered by weight, highest first, entries of equal weight in profile order
Ahead(tagMap, i) ==
  {j \in DOMAIN tagMap :
     \/ tagMap[j].w > tagMap[i].w
     \/ tagMap[j].w = tagMap[i].w /\ j < i}

\* the 15 highest-weighted tags of the profile
FifteenHighest(tagMap) ==
  {tagMap[i].tag : i \in {k \in DOMAIN tagMap : Cardinality(Ahead(tagMap, k)) < 15}}

RECURSIVE WeightSum(_, _, _)
\* the sum of the weights of the profile entries from i on whose tag is in the set
WeightSum(tagMap, i, tagSet) ==
  IF i > Len(tagMap) THEN 0
  ELSE (IF tagMap[i].tag \in tagSet THEN tagMap[i].w ELSE 0)
       + WeightSum(tagMap, i + 1, tagSet)

\* the score of an interest candidate whose tag-affinity part is `affinity`
\* half units: affinity + max(0, 15 - ageHours) + ln(1 + likes + reposts)
ScoreWith(affinity, id) ==
  LET b == bulletins[id]
  IN  (affinity * 1000) \div 2
      + Max(0, (15 - (fy.now - b.createdAt)) * 1000)
      + Log1pMilli(Len(b.likes) + Len(b.reposts))

\* C21 as stated: the tag-affinity part of the score of an interest
\* candidate is the sum of the user's weights over the tags of the post that
\* are among the user's 15 highest-weighted tags; a tag outside the top 15
\* contributes nothing.
C21TopFifteenOnly ==
  FyOk =>
    \A k \in DOMAIN fy.rawInterest :
      LET id == fy.rawInterest[k].id
      IN  fy.rawInterest[k].score =
            ScoreWith(WeightSum(fy.tagMap, 1,
                                TagSet(bulletins[id].tags) \cap FifteenHighest(fy.tagMap)),
                      id)

\* C21 amended: the tag-affinity part is the sum of the user's weights over
\* every tag of the post that the profile holds, whatever its rank; the 15
\* highest-weighted tags decide only which posts are candidates.
C21WholeProfile ==
  FyOk =>
    \A k \in DOMAIN fy.rawInterest :
      LET id == fy.rawInterest[k].id
      IN  fy.rawInterest[k].score =
            ScoreWith(WeightSum(fy.tagMap, 1, TagSet(bulletins[id].tags)), id)

\* a candidate tagged art, t16 for a profile of 17 tags: art is in the top
\* 15, t16 is in the profile outside the top 15
C21Witness ==
  /\ FyOk /\ Len(fy.tagMap) = 17
  /\ \E k \in DOMAIN fy.rawInterest :
       /\ bulletins[fy.rawInterest[k].id].tags = <<"art", "t16">>
       /\ "t16" \in MapKeys(fy.tagMap) \ FifteenHighest(fy.tagMap)
       /\ "art" \in FifteenHighest(fy.tagMap)

\* the sum of the user's weights for the tags of candidate k
Matched(k) ==
  WeightSum(fy.tagMap, 1, TagSet(bulletins[fy.rawInterest[k].id].tags))

\* candidates i and j have the same age and the same engagement
SameAgeAndNotes(i, j) ==
  LET a == bulletins[fy.rawInterest[i].id]
      b == bulletins[fy.rawInterest[j].id]
  IN  /\ a.createdAt = b.createdAt
      /\ Len(a.likes) + Len(a.reposts) = Len(b.likes) + Len(b.reposts)

\* C22: every interest candidate was created within the 21 days before the
\* request and carries at least one of the user's 15 highest-weighted tags;
\* the interest list is in non-increasing score order, so that of two
\* candidates of equal age and engagement the one whose matched tag weights
\* sum higher comes first; a user without interest tags gets an empty
\* interest list and no error.
C22Interest ==
  (fy.pc = "done" /\ fy.userId \in Users) =>
    /\ \A k \in DOMAIN fy.rawInterest :
         LET b == bulletins[fy.rawInterest[k].id]
         IN  /\ b.createdAt >= fy.now - 21 * 24
             /\ TagSet(b.tags) \cap FifteenHighest(fy.tagMap) # {}
    /\ \A k \in 1..(Len(fy.rawInterest) - 1) :
         fy.rawInterest[k].score >= fy.rawInterest[k + 1].score
    /\ \A i \in DOMAIN fy.rawInterest, j \in DOMAIN fy.rawInterest :
         (SameAgeAndNotes(i, j) /\ Matched(i) > Matched(j)) => i < j
    /\ fy.tagMap = <<>> => (fy.rawInterest = <<>> /\ fy.status = 200)

\* weights {music: 50, art: 10}; the art post was created first and the
\* music post second, both at the hour of the request and without
\* engagement: the music post (50 + 15) is ranked above the art post (10 + 15)
C22Witness ==
  /\ FyOk
  /\ fy.tagMap = <<[tag |-> "music", w |-> 100], [tag |-> "art", w |-> 20]>>
  /\ Len(fy.rawInterest) = 2
  /\ fy.rawInterest[1] = [id |-> 2, score |-> 65000]
  /\ fy.rawInterest[2] = [id |-> 1, score |-> 25000]
  /\ bulletins[2].tags = <<"music">> /\ bulletins[1].tags = <<"art">>

\* ------------------------------------------------------------------------
\* The trending generator over a store larger than its candidate limit
\* ------------------------------------------------------------------------

\* the numbers of originals in the store: none, one, the candidate limit and
\* one more than the limit
CapSizes == {0, 1, TRENDING_CANDIDATE_LIMIT, TRENDING_CANDIDATE_LIMIT + 1}
CapDelays == {0, 1}

\* u3 has posted n originals, 100 of them an hour from hour 100 on, the first
\* tagged retro, each drawing 6 comments; u1 has viewed the first and is a
\* friend of u2.  The requests arrive at hour 106 + delay.
InitCap ==
  /\ communities = NoCommunities
  /\ reqs = [r \in ReqIds |-> ReqIdle]
  /\ ops = 0
  /\ fy = FyIdle
  /\ tr = TrIdle
  /\ nextEdge = 2
  /\ friendships = (1 :> [NewFriendship("u1", "u2") EXCEPT !.status = "accepted"])
  /\ \E n \in CapSizes, delay \in CapDelays :
       /\ now = 106 + delay
       /\ nextId = n + 1
       /\ bulletins =
            [id \in 1..n |->
               [NewBulletin("u3", IF id = 1 THEN <<"retro">> ELSE <<>>, NoPost,
                            100 + (id \div 100)) EXCEPT !.comments = 6]]
       /\ interestTags =
            [NoProfiles EXCEPT
               !["u1"] = IF n > 0 THEN ApplyTags(<<>>, <<"retro">>, WeightFor("view"))
                         ELSE <<>>]
       /\ interactions =
            IF n > 0 THEN ([userId |-> "u1", bulletinId |-> 1, type |-> "view"] :> 1)
            ELSE EmptyStore

\* no request is in flight
CapQuiet == fy.pc \in {"idle", "done"} /\ tr.pc \in {"idle", "done"}

\* For You requests of u1 and trending requests without query parameters
\* over that store, one request at a time, every read succeeding
NextCap ==
  \/ CapQuiet /\ FyStart("u1")
  \/ FyStep
  \/ CapQuiet /\ TrStart([page |-> <<>>, limit |-> <<>>])
  \/ TrFind

SpecCap == InitCap /\ [][NextCap]_vars

\* ------------------------------------------------------------------------
\* Properties of the trending generator
\* ------------------------------------------------------------------------

\* the bulletins of the scored list are originals created in the `days`
\* days before instant `at`
OriginalsWithin(scored, days, at) ==
  \A k \in DOMAIN scored :
    /\ bulletins[scored[k].id].repostOf = NoPost
    /\ bulletins[scored[k].id].createdAt >= at - days * 24

\* C23 as stated: at both call sites, the trending bucket of For You and the
\* trending endpoint, the trending generator scores only originals inside
\* its window (21 days and 4 days) and at most 500 of them.
C23Cap ==
  /\ FyOk => /\ OriginalsWithin(fy.rawTrending, 21, fy.now)
             /\ Len(fy.rawTrending) <= 500
  /\ TrOk => /\ OriginalsWithin(tr.scored, 4, tr.now)
             /\ Len(tr.scored) <= 500

\* ------------------------------------------------------------------------
\* Properties of the blend
\* ------------------------------------------------------------------------

\* the first of the three generator outputs that contains the bulletin
FirstSource(id) ==
  IF id \in Ids(fy.rawInterest) THEN "interest"
  ELSE IF id \in Ids(fy.rawFriends) THEN "friend"
  ELSE IF id \in Ids(fy.rawTrending) THEN "trending"
  ELSE "none"

\* the buckets that selected the bulletin
SelectedBy(id) ==
  {b \in {"interest", "friend", "trending"} :
     id \in Ids(CASE b = "interest" -> fy.chosenInterest
                  [] b = "friend" -> fy.chosenFriends
                  [] OTHER -> fy.chosenTrending)}

\* C24: every post of a blended For You result was selected by exactly one
\* bucket, the first of interest, friend, trending whose generator produced
\* it; and a post the interest generator ranks beyond its 25 slots is absent
\* from the result, also when the friend or the trending generator produced
\* it and those buckets have slots left.
C24FirstBucket ==
  FyBlend =>
    /\ \A k \in DOMAIN fy.body : SelectedBy(fy.body[k].id) = {FirstSource(fy.body[k].id)}
    /\ \A k \in DOMAIN fy.rawInterest :
         k > 25 => fy.rawInterest[k].id \notin Ids(fy.body)

\* the interest generator produced more than 25 posts; one beyond rank 25 is
\* a trending candidate too, the trending bucket is empty, and the post is
\* not in the result
C24Witness ==
  /\ FyBlend
  /\ Len(fy.rawInterest) > 25
  /\ Len(fy.chosenTrending) < targetTrending
  /\ \E k \in DOMAIN fy.rawInterest :
       /\ k > 25
       /\ fy.rawInterest[k].id \in Ids(fy.rawTrending)
       /\ fy.rawInterest[k].id \notin Ids(fy.body)

\* the number of places of the list that hold the bulletin
Occurrences(items, id) == Cardinality({k \in DOMAIN items : items[k].id = id})

\* C25: on the blended path, whatever indices the shuffle draws, the
\* returned list holds the post ids of chosenInterest + chosenFriends +
\* chosenTrending with the same multiplicities, none lost and none added, and
\* no returned item has the score field.
C25Permutation ==
  FyBlend =>
    LET selected == fy.chosenInterest \o fy.chosenFriends \o fy.chosenTrending
    IN  /\ Len(fy.body) = Len(selected)
        /\ \A id \in Ids(selected) \cup Ids(fy.body) :
             Occurrences(fy.body, id) = Occurrences(selected, id)
        /\ \A k \in DOMAIN fy.body : "score" \notin DOMAIN fy.body[k]
        /\ \A k \in DOMAIN selected : "score" \in DOMAIN selected[k]

\* a full result of 50 items that the shuffle has put in another order than
\* the selection
C25Witness ==
  /\ FyBlend /\ Len(fy.body) = 50
  /\ \E k \in DOMAIN fy.body : fy.body[k].id # fy.combined[k].id

\* ------------------------------------------------------------------------
\* Properties of the engagement counts
\* ------------------------------------------------------------------------

\* the existing bulletins that are reposts of the bulletin
RepostsOf(id) == {j \in DOMAIN bulletins : bulletins[j].repostOf = id}

\* C26 as stated: after any sequence of repost and delete operations the
\* length of the reposts list of a bulletin is the number of existing
\* bulletins whose repostOf references it, so that deleting a repost lowers
\* the repost count of its original by one.
C26RepostCount ==
  Quiet =>
    \A id \in DOMAIN bulletins :
      Len(bulletins[id].reposts) = Cardinality(RepostsOf(id))

\* ------------------------------------------------------------------------
\* The trending score over candidates of equal engagement
\* ------------------------------------------------------------------------

ScoreLikes == {<<>>, <<"u1">>, <<"u1", "u3">>}
ScoreComments == {0, 3, 700}
ScoreCreatedAt == {0, 90, 100}

\* At hour 100 the store holds one or two originals of u2 with the same
\* likes and the same number of comments, created at hours of ScoreCreatedAt;
\* when `reposted`, u3 has reposted each of them once.  When `social`, u1 is
\* a friend of u2 and has once viewed a bulletin tagged retro that has been
\* deleted since.
ScoreStore(nOrig, likes, comments, reposted, createdAt) ==
  [id \in 1..(IF reposted THEN 2 * nOrig ELSE nOrig) |->
     IF id <= nOrig
       THEN [NewBulletin("u2", <<>>, NoPost, createdAt[id]) EXCEPT
               !.likes = likes, !.comments = comments,
               !.reposts = IF reposted THEN <<nOrig + id>> ELSE <<>>]
       ELSE NewBulletin("u3", <<>>, id - nOrig, 100)]

InitScore ==
  /\ communities = NoCommunities
  /\ reqs = [r \in ReqIds |-> ReqIdle]
  /\ ops = 0
  /\ fy = FyIdle
  /\ tr = TrIdle
  /\ now = 100
  /\ \E nOrig \in {1, 2}, likes \in ScoreLikes, comments \in ScoreComments,
        reposted \in BOOLEAN, social \in BOOLEAN,
        createdAt \in [1..2 -> ScoreCreatedAt] :
       LET store == ScoreStore(nOrig, likes, comments, reposted, createdAt)
       IN  /\ bulletins = store
           /\ IF social
                THEN /\ nextEdge = 2
                     /\ friendships =
                          (1 :> [NewFriendship("u1", "u2") EXCEPT !.status = "accepted"])
                     /\ interestTags =
                          [NoProfiles EXCEPT
                             !["u1"] = ApplyTags(<<>>, <<"retro">>, WeightFor("view"))]
                ELSE /\ nextEdge = 1
                     /\ friendships = EmptyStore
                     /\ interestTags = NoProfiles
           /\ nextId = Len(store) + 1
           /\ interactions =
                IF reposted
                  THEN [e \in {[userId |-> "u3", bulletinId |-> id, type |-> "repost"] :
                               id \in 1..nOrig} |-> 1]
                  ELSE EmptyStore

\* For You requests of u1 and trending requests without query parameters,
\* every read succeeding, while time passes and u2 posts
NextScore ==
  \/ FyStart("u1")
  \/ FyStep
  \/ FyQuiet /\ TrStart([page |-> <<>>, limit |-> <<>>])
  \/ TrFind
  \/ Tick
  \/ CreateBulletin("u2", <<>>)

SpecScore == InitScore /\ [][NextScore]_vars

\* the hours between the creation of the bulletin and instant `at`
HoursBetween(id, at) ==
  IF at >= bulletins[id].createdAt THEN at - bulletins[id].createdAt
  ELSE bulletins[id].createdAt - at

\* the like, repost and comment counts of the bulletin
Counts(id) ==
  <<Len(bulletins[id].likes), Len(bulletins[id].reposts), bulletins[id].comments>>

\* (3 likes + 2 reposts + 2 comments) / (hours + 2)^1.2, in thousandths
DecayedScore(id, at) ==
  ((3 * Counts(id)[1] + 2 * Counts(id)[2] + 2 * Counts(id)[3]) * 1000000)
    \div Pow12Milli(HoursBetween(id, at))

\* the scored list, taken at instant `at`, decays with age
Decays(scored, at) ==
  /\ \A k \in DOMAIN scored :
       /\ scored[k].score = DecayedScore(scored[k].id, at)
       /\ scored[k].score >= 0
       /\ Pow12Milli(HoursBetween(scored[k].id, at)) >= 2297
  /\ \A i \in DOMAIN scored, j \in DOMAIN scored :
       (/\ Counts(scored[i].id) = Counts(scored[j].id)
        /\ HoursBetween(scored[i].id, at) <= HoursBetween(scored[j].id, at))
       => scored[i].score >= scored[j].score

\* C27: of two trending candidates with the same like, repost and comment
\* counts the one with the smaller hoursSinceCreated scores at least as high,
\* the score being (3 likes + 2 reposts + 2 comments) /
\* (hoursSinceCreated + 2)^1.2; no score is negative and no denominator is
\* below 2^1.2.
C27Decay ==
  /\ FyOk => Decays(fy.rawTrending, fy.now)
  /\ TrOk => Decays(tr.scored, tr.now)

\* two candidates of a For You request with the same counts, not all zero:
\* the younger scores strictly higher
C27Witness ==
  /\ FyOk
  /\ \E i \in DOMAIN fy.rawTrending, j \in DOMAIN fy.rawTrending :
       /\ Counts(fy.rawTrending[i].id) = Counts(fy.rawTrending[j].id)
       /\ HoursBetween(fy.rawTrending[i].id, fy.now)
            < HoursBetween(fy.rawTrending[j].id, fy.now)
       /\ fy.rawTrending[i].score > fy.rawTrending[j].score

\* ------------------------------------------------------------------------
\* Properties of overlapping requests
\* ------------------------------------------------------------------------

\* the save of request r stores, for every tag it wrote, the weight stored
\* just before plus the weight of its interaction type, capped at 200
AddsToStored(r) ==
  Saves(r) =>
    \A i \in DOMAIN reqs[r].upd :
      Weight(interestTags', reqs[r].userId, reqs[r].upd[i].tag) =
        Min(400, Weight(interestTags, reqs[r].userId, reqs[r].upd[i].tag)
                   + WeightFor(reqs[r].type))

\* C28 as stated: when two interaction requests of the same user on posts
\* sharing a tag overlap, no update is lost: each save adds its weight to
\* the weight stored at that moment, so the final weight is the one the two
\* updates give when applied one after the other, min(200, w0 + w1 + w2).
C28NoLostUpdate == [][\A r \in ReqIds : AddsToStored(r)]_vars

\* the like request r saves the original: a toggle that found the user in
\* the list leaves the list without the user, one that did not appends the
\* user, and the other users stay as they were
ToggleStep(r) ==
  LET q == reqs[r] IN
  (/\ q.kind = "like" /\ q.pc = "saveDoc" /\ reqs'[r].pc = "done"
   /\ reqs'[r].status = 200)
  => /\ q.orig \in DOMAIN bulletins'
     /\ bulletins'[q.orig].likes =
          IF q.liked
            THEN SelectSeq(bulletins[q.orig].likes, LAMBDA u : u # q.userId)
            ELSE Append(bulletins[q.orig].likes, q.userId)

\* no user id occurs twice in a likes list
LikesOnce ==
  \A id \in DOMAIN bulletins : \A u \in Users :
    Cardinality({k \in DOMAIN bulletins[id].likes : bulletins[id].likes[k] = u}) <= 1

\* C29 as stated: in every state reached by any interleaving of like
\* toggles, directly on a post or on a repost of it, two overlapping toggles
\* of one user included, a user id occurs at most once in the likes list of
\* the original post; and two toggles of one user in turn restore the list.
C29LikesOnce == []LikesOnce /\ [][\A r \in ReqIds : ToggleStep(r)]_vars

\* ------------------------------------------------------------------------
\* Communities and bulletin approval
\* ------------------------------------------------------------------------

\* the community ids sent with POST /: c1 exists, c0 is the id of no community
CommunityIds == {"c1", "c0"}

\* the approvals followed once the counter is below zero
MaxApprovals == 3

\* new Community({administrator, requireApproval}) with the schema default
\* of pendingBulletins
NewCommunity(administrator, requireApproval) ==
  [administrator |-> administrator, requireApproval |-> requireApproval,
   pendingBulletins |-> 0]

\* POST / with a communityId: when the community requires approval the
\* bulletin is saved unapproved and pendingBulletins is incremented
CreateCommunityBulletin(userId, tags, communityId) ==
  /\ nextId + PendingReposts <= MaxPosts
  /\ LET required == /\ communityId \in DOMAIN communities
                     /\ communities[communityId].requireApproval
     IN  /\ communities' =
              IF required
                THEN [communities EXCEPT ![communityId].pendingBulletins = @ + 1]
                ELSE communities
         /\ bulletins' = [i \in DOMAIN bulletins \cup {nextId} |->
              IF i = nextId
                THEN [NewBulletin(userId, tags, NoPost, now) EXCEPT
                        !.communityId = communityId, !.approved = ~ required]
                ELSE bulletins[i]]
  /\ nextId' = nextId + 1
  /\ UNCHANGED <<now, interestTags, friendships, nextEdge, interactions,
                 reqs, ops, fy, tr>>

\* PUT /:id/approve: 404 when missing; bulletin.approved = true, and
\* $inc pendingBulletins: -1 whenever the bulletin has a communityId
ApproveBulletin(id) ==
  /\ id \in DOMAIN bulletins
  /\ LET c == bulletins[id].communityId IN
       IF c # NoCommunity /\ c \in DOMAIN communities
         THEN /\ communities[c].pendingBulletins > - MaxApprovals
              /\ communities' = [communities EXCEPT ![c].pendingBulletins = @ - 1]
         ELSE UNCHANGED communities
  /\ bulletins' = [bulletins EXCEPT ![id].approved = TRUE]
  /\ UNCHANGED <<now, nextId, interestTags, friendships, nextEdge, interactions,
                 reqs, ops, fy, tr>>

\* PUT /:id/require-approval: 404 when missing, 403 for any other user than
\* the administrator
SetRequireApproval(id, adminId, requireApproval) ==
  /\ id \in DOMAIN communities
  /\ communities[id].administrator = adminId
  /\ communities' = [communities EXCEPT ![id].requireApproval = requireApproval]
  /\ UNCHANGED <<now, nextId, bulletins, interestTags, friendships, nextEdge,
                 interactions, reqs, ops, fy, tr>>

\* Community c1, administered by u1, exists and has no bulletin yet; it
\* requires approval or not.
InitCommunity ==
  /\ now = 0
  /\ nextId = 1
  /\ bulletins = EmptyStore
  /\ interestTags = NoProfiles
  /\ friendships = EmptyStore
  /\ nextEdge = 1
  /\ interactions = EmptyStore
  /\ reqs = [r \in ReqIds |-> ReqIdle]
  /\ ops = 0
  /\ fy = FyIdle
  /\ tr = TrIdle
  /\ \E requireApproval \in BOOLEAN :
       communities = ("c1" :> NewCommunity("u1", requireApproval))

\* Bulletins are created in a community or outside, approved and deleted,
\* and the administrator switches the approval setting, one request at a
\* time.
NextCommunity ==
  \/ \E c \in CommunityIds : CreateCommunityBulletin("u2", <<>>, c)
  \/ CreateBulletin("u2", <<>>)
  \/ \E id \in 1..MaxPosts : ApproveBulletin(id)
  \/ \E id \in 1..MaxPosts : DeleteBulletin(id)
  \/ \E a \in Actors, requireApproval \in BOOLEAN :
       SetRequireApproval("c1", a, requireApproval)

SpecCommunity == InitCommunity /\ [][NextCommunity]_vars

\* the existing bulletins of the community that are not approved
Unapproved(c) ==
  {id \in DOMAIN bulletins :
     bulletins[id].communityId = c /\ ~ bulletins[id].approved}

\* C30 as stated: after any sequence of create, approve and delete
\* operations the pendingBulletins counter of a community equals the number
\* of its existing bulletins with approved = false, and is never negative.
C30Pending ==
  \A c \in DOMAIN communities :
    /\ communities[c].pendingBulletins = Cardinality(Unapproved(c))
    /\ communities[c].pendingBulletins >= 0

====
